---- MODULE Spec2Model ----
(***************************************************************************)
(* Model of fb-game-post:                                                  *)
(*   collage.py        make_collage, _resize_into_cell, _download_image    *)
(*   onThisDay.py      make_collage_1242, the cover fit, the gradient band *)
(*                     and the text overlay, the candidate selection       *)
(*   generateImage.py  the title wrap and fit, the sale-text wrap          *)
(*   getScreenshots.py igdb_post                                           *)
(*   getTrend.py       the export tracker and the candidates               *)
(*   facebookPost.py   uploads, feed post and comments                     *)
(* Each function is a small state machine over its local variables; a     *)
(* call is one behaviour, started from arguments drawn in Init.            *)
(***************************************************************************)
EXTENDS Integers, Sequences, FiniteSets, TLC

(***************************************************************************)
(* Bounds of the model and constants of the program.                       *)
(***************************************************************************)
MaxN == 8
MaxCols == 4
MaxSmallW == 5
MaxMargin == 1
MaxGutter == 1
DefaultCanvasW == 1820

\* Python's None, where the other values are sizes <<w, h>>
None == <<>>

(***************************************************************************)
(* Arithmetic as Python computes it.                                       *)
(***************************************************************************)
Min(a, b) == IF a < b THEN a ELSE b

Max(a, b) == IF a > b THEN a ELSE b

\* math.ceil(a / b) for a >= 0, b >= 1
CeilDiv(a, b) == (a + b - 1) \div b

\* int(round(num / den)) for den >= 1: Python 3 rounds a half to the even
\* neighbour; num / den is one correctly rounded division of two integers,
\* so an exact half is a half in floating point too.
RoundDiv(num, den) ==
    LET q == num \div den
        r == num % den
    IN  IF 2 * r < den THEN q
        ELSE IF 2 * r > den THEN q + 1
        ELSE IF q % 2 = 0 THEN q ELSE q + 1

RECURSIVE SumH(_)
\* sum(h for _, _, h, _ in rows_meta)
SumH(rows) == IF rows = <<>> THEN 0 ELSE Head(rows).cell_h + SumH(Tail(rows))

RECURSIVE SumItems(_)
SumItems(rows) == IF rows = <<>> THEN 0 ELSE Head(rows).items + SumItems(Tail(rows))

(***************************************************************************)
(* make_collage (collage.py)                                               *)
(***************************************************************************)
VARIABLES
    args,        \* the arguments of the call: urls, cols, canvas_w, margin, gutter, aspect_ratio
    pc,          \* position in make_collage
    n,           \* len(urls)
    cols,        \* cols after the clamp
    row_count,
    rows_meta,   \* sequence of [items, cell_w, cell_h, x_start]
    idx,         \* number of URLs consumed by the running pass
    canvas,      \* None, or the size of the canvas created
    r,           \* row of the paste pass (index into rows_meta)
    k,           \* tiles already pasted in row r
    x,
    y,
    tiles,       \* what has been pasted: [url, row, x, y, w, h, placeholder]
    downloads,   \* number of download attempts
    fs,          \* file-system effects so far
    result       \* "None", the returned path, or the exception raised

collageVars == <<args, pc, n, cols, row_count, rows_meta, idx, canvas, r, k, x, y,
                 tiles, downloads, fs, result>>

\* _resize_into_cell (collage.py) and _center_crop_cover (onThisDay.py)
VARIABLES
    f_fn,        \* the function called
    f_img,       \* None, or the size of the source image
    f_target,    \* <<target_w, target_h>>
    f_mode,      \* "cover" or "contain"
    f_pc,
    f_new,       \* <<new_w, new_h>> of img_resized
    f_box,       \* the crop box (left, top, right, bottom)
    f_out        \* size of the image returned

fitVars == <<f_fn, f_img, f_target, f_mode, f_pc, f_new, f_box, f_out>>

\* make_collage_1242 (onThisDay.py)
VARIABLES
    g_args,      \* urls, cols, cell_w, cell_h, margin, gutter, canvas_w
    g_pc,
    g_urls,      \* urls after the filter
    g_n,
    g_last_wide,
    g_rows_base,
    g_canvas,    \* None, or <<canvas_w, total_h>>
    g_y,
    g_col,
    g_idx,
    g_tiles,     \* what has been pasted: [url, x, y, w, h, placeholder]
    g_downloads,
    g_fs,
    g_result

gridVars == <<g_args, g_pc, g_urls, g_n, g_last_wide, g_rows_base, g_canvas, g_y,
              g_col, g_idx, g_tiles, g_downloads, g_fs, g_result>>

\* best_two_line_wrap and fit_title_to_two_lines (generateImage.py)
VARIABLES
    t_fn,        \* the function called
    t_title,     \* the title, a sequence of characters
    t_max_width,
    t_spacing,
    t_initial,   \* initial_size (the font size, for best_two_line_wrap)
    t_min,       \* min_size
    t_size,      \* size of the running iteration
    t_pc,
    t_lines,     \* what is returned: None, or the list of lines
    t_font       \* size of the font returned

titleVars == <<t_fn, t_title, t_max_width, t_spacing, t_initial, t_min, t_size,
               t_pc, t_lines, t_font>>

\* the sale-info word wrap (generateImage.py)
VARIABLES
    s_segments, s_max, s_size, s_spacing, s_pc, s_words, s_i, s_current_line,
    s_current_width, s_wrapped

saleVars == <<s_segments, s_max, s_size, s_spacing, s_pc, s_words, s_i, s_current_line,
              s_current_width, s_wrapped>>

\* _fit_font_to_width (onThisDay.py)
VARIABLES
    p_text, p_base_size, p_max_width, p_stroke, p_min_px, p_step, p_font_ok, p_pc, p_size

fontVars == <<p_text, p_base_size, p_max_width, p_stroke, p_min_px, p_step, p_font_ok,
              p_pc, p_size>>

\* add_gradient_background (onThisDay.py)
VARIABLES
    b_args,      \* center_y, height, fade and the height of the image
    b_pc,
    b_crop,      \* <<crop_top, crop_bottom>>: the rows cut from the band, or None
    b_paste,     \* <<top, bottom>>: the rows of the image the strip covers, or None
    b_result     \* what the call returns, or the error it raises

bandVars == <<b_args, b_pc, b_crop, b_paste, b_result>>

\* add_text_overlay (onThisDay.py)
VARIABLES
    o_texts,        \* <<line1, line2, line3>>
    o_img_height,   \* the height of the image that is opened
    o_font_ok,      \* FONT_PATH loads
    o_pc,
    o_solid,        \* <<solid_top, solid_bottom>>
    o_lines,        \* the lines kept: key, txt, sz, hh, max_w
    o_total_h,
    o_available_h,
    o_scaled,       \* the proportional rescale was done
    o_top_y

overlayVars == <<o_texts, o_img_height, o_font_ok, o_pc, o_solid, o_lines, o_total_h,
                 o_available_h, o_scaled, o_top_y>>

\* the alpha column of add_gradient_background (onThisDay.py)
VARIABLES
    a_args,      \* height, fade and the opacity that is passed
    a_pc,
    a_opacity,   \* the opacity after the clamp, <<num, den>>
    a_y,         \* the row the loop is at
    a_raw,       \* the value of each row before the opacity is applied
    a_col        \* alpha_col, one value for each row

alphaVars == <<a_args, a_pc, a_opacity, a_y, a_raw, a_col>>

\* igdb_post and the run of getScreenshots.py that calls it
VARIABLES
    i_pc,        \* position in igdb_post, or how the call ended
    i_attempt,   \* attempt of the loop at line 75
    i_log,       \* what the call did so far: the POSTs and the sleeps, in order
    i_calls,     \* calls of igdb_post the run has made
    i_run        \* the run: running, finished or crashed

igdbVars == <<i_pc, i_attempt, i_log, i_calls, i_run>>

\* the runs of getTrend.py, one after the other, and the files they share
VARIABLES
    tr_platform,        \* PLATFORM
    tr_use_tracker,     \* USE_EXPORTED_TRACKER
    tr_feed,            \* the source data: games after the filter and the sort
    tr_now,             \* the clock of the run, in days
    tr_runs,            \* runs started
    tr_pc,
    tr_tracker,         \* the tracker file: exists, ts, slugs
    tr_force_file,      \* the force-include file: state, slugs
    tr_output,          \* the export file: the slugs of its entries, in order
    tr_period_start,    \* <<t>>, or <<>> for None
    tr_exported_slugs,
    tr_seen_force,      \* seen_force_slugs
    tr_forced,          \* force_included_games, as positions in the feed
    tr_candidates,      \* new_candidates, as positions in the feed
    tr_export,          \* export_data, as positions in the feed
    tr_loaded,          \* the tracker file as the run found it
    tr_window           \* the slugs exported by the runs of the current window

trendVars == <<tr_platform, tr_use_tracker, tr_feed, tr_now, tr_runs, tr_pc, tr_tracker,
               tr_force_file, tr_output, tr_period_start, tr_exported_slugs, tr_seen_force,
               tr_forced, tr_candidates, tr_export, tr_loaded, tr_window>>

\* one run of facebookPost.py
VARIABLES
    fb_folder,     \* the names os.listdir gives
    fb_comments,   \* COMMENTS of the config
    fb_pc,
    fb_files,      \* image_files
    fb_i,          \* files uploaded or comments posted so far in the loop
    fb_uploaded,   \* uploaded_media
    fb_log         \* the requests sent, in order, each with its outcome

fbVars == <<fb_folder, fb_comments, fb_pc, fb_files, fb_i, fb_uploaded, fb_log>>

\* the candidate selection of main (onThisDay.py)
VARIABLES
    d_todays,       \* the entries released on the day, in source order
    d_pc,
    d_candidates,   \* the entries as pick_entries_sorted_by_score_pop_year returns them
    d_idx,          \* candidates tried so far
    d_chosen        \* <<entry>> once one is selected, <<>> before

pickVars == <<d_todays, d_pc, d_candidates, d_idx, d_chosen>>

vars == <<collageVars, fitVars, gridVars, titleVars, saleVars, fontVars, bandVars, overlayVars, alphaVars, igdbVars, trendVars, fbVars, pickVars>>

\* what a call of one function leaves alone: the variables of the others
notCollage == <<fitVars, gridVars, titleVars, saleVars, fontVars, bandVars, overlayVars, alphaVars, igdbVars, trendVars, fbVars, pickVars>>

notFit == <<collageVars, gridVars, titleVars, saleVars, fontVars, bandVars, overlayVars, alphaVars, igdbVars, trendVars, fbVars, pickVars>>

notGrid == <<collageVars, fitVars, titleVars, saleVars, fontVars, bandVars, overlayVars, alphaVars, igdbVars, trendVars, fbVars, pickVars>>

notTitle == <<collageVars, fitVars, gridVars, saleVars, fontVars, bandVars, overlayVars, alphaVars, igdbVars, trendVars, fbVars, pickVars>>

notSale == <<collageVars, fitVars, gridVars, titleVars, fontVars, bandVars, overlayVars, alphaVars, igdbVars, trendVars, fbVars, pickVars>>

notFont == <<collageVars, fitVars, gridVars, titleVars, saleVars, bandVars, overlayVars, alphaVars, igdbVars, trendVars, fbVars, pickVars>>

notBand == <<collageVars, fitVars, gridVars, titleVars, saleVars, fontVars, overlayVars, alphaVars, igdbVars, trendVars, fbVars, pickVars>>

notOverlay == <<collageVars, fitVars, gridVars, titleVars, saleVars, fontVars, bandVars, alphaVars, igdbVars, trendVars, fbVars, pickVars>>

notAlpha == <<collageVars, fitVars, gridVars, titleVars, saleVars, fontVars, bandVars, overlayVars, igdbVars, trendVars, fbVars, pickVars>>

notIgdb == <<collageVars, fitVars, gridVars, titleVars, saleVars, fontVars, bandVars, overlayVars, alphaVars, trendVars, fbVars, pickVars>>

notTrend == <<collageVars, fitVars, gridVars, titleVars, saleVars, fontVars, bandVars, overlayVars, alphaVars, igdbVars, fbVars, pickVars>>

notFb == <<collageVars, fitVars, gridVars, titleVars, saleVars, fontVars, bandVars, overlayVars, alphaVars, igdbVars, trendVars, pickVars>>

notPick == <<collageVars, fitVars, gridVars, titleVars, saleVars, fontVars, bandVars, overlayVars, alphaVars, igdbVars, trendVars, fbVars>>

AspectRatios == {<<16, 9>>, <<2, 1>>}

CanvasWidths == (1 .. MaxSmallW) \cup {DefaultCanvasW}

ArgSet ==
    [urls : {[i \in 1 .. m |-> i] : m \in 0 .. MaxN},
     cols : -1 .. MaxCols,
     canvas_w : CanvasWidths,
     margin : {0, MaxMargin},
     gutter : {0, MaxGutter},
     aspect_ratio : AspectRatios]

\* if cols < 1: cols = 1; a faulty variant
ClampColsToTwo(c) == IF c < 1 THEN 2 ELSE c

\* if cols < 1: cols = 1
ClampCols(c) == IF c < 1 THEN 1 ELSE c

\* math.floor in place of math.ceil; a faulty variant
RowCountFloor(len, c) == len \div c

\* row_count = math.ceil(n / cols)
RowCount(len, c) == CeilDiv(len, c)

\* every row one item short; a faulty variant
ItemsInRowBalanced(c, remaining) == Max(1, Min(c, remaining) - 1)

\* items_in_row = min(cols, remaining)
ItemsInRow(c, remaining) == Min(c, remaining)

\* every row divided by cols; a faulty variant
CellWAlwaysCols(items, c, cw, m, g) == (cw - 2 * m - (c - 1) * g) \div c

\* cell_w of a row holding `items` tiles
CellW(items, c, cw, m, g) ==
    IF items = c THEN (cw - 2 * m - (c - 1) * g) \div c
    ELSE IF items = 1 THEN cw - 2 * m
    ELSE (cw - 2 * m - (items - 1) * g) \div items

\* x_start of a row holding `items` tiles
XStart(items, c, cw, m, g) ==
    IF items = c THEN m
    ELSE IF items = 1 THEN m
    ELSE LET cell_w == CellW(items, c, cw, m, g)
             row_w == items * cell_w + (items - 1) * g
         IN  (cw - row_w) \div 2

\* truncation in place of rounding; a faulty variant
CellHTrunc(cell_w, ar) == (cell_w * ar[2]) \div ar[1]

\* cell_h = int(round(cell_w * aspect_ratio[1] / aspect_ratio[0]))
CellH(cell_w, ar) == RoundDiv(cell_w * ar[2], ar[1])

\* the vertical gutters forgotten; a faulty variant
CanvasHNoGutter(rows, m, g) == SumH(rows) + 2 * m

\* canvas_h_dyn
CanvasHDyn(rows, m, g) == SumH(rows) + (Len(rows) - 1) * g + 2 * m

\* what the network does with one GET
NetOutcomes == {"ok", "fail"}

\* no try/except around the request; a faulty variant
DownloadImageRaises(net) == IF net = "ok" THEN "img" ELSE "raise"

\* _download_image of collage.py: the image, or None on any exception.
\* The pixels do not matter to the layout: a fetched image is "img".
DownloadImage(net) == IF net = "ok" THEN "img" ELSE "None"

\* the tile _resize_into_cell returns: the placeholder
\* Image.new((target_w, target_h)) for None, else the crop box of cover
\* mode or the canvas of contain mode, all of the target size.
ResizeIntoCell(img, target_w, target_h) ==
    IF img = "None"
    THEN [w |-> target_w, h |-> target_h, placeholder |-> TRUE]
    ELSE [w |-> target_w, h |-> target_h, placeholder |-> FALSE]

InitCollage ==
    /\ args \in ArgSet
    /\ pc = "start"
    /\ n = 0
    /\ cols = 0
    /\ row_count = 0
    /\ rows_meta = <<>>
    /\ idx = 0
    /\ canvas = None
    /\ r = 0
    /\ k = 0
    /\ x = 0
    /\ y = 0
    /\ tiles = <<>>
    /\ downloads = 0
    /\ fs = {}
    /\ result = "None"

\* make_collage is not called
IdleCollage ==
    /\ args = [urls |-> <<>>, cols |-> 0, canvas_w |-> 0, margin |-> 0, gutter |-> 0,
               aspect_ratio |-> <<1, 1>>]
    /\ pc = "idle"
    /\ n = 0
    /\ cols = 0
    /\ row_count = 0
    /\ rows_meta = <<>>
    /\ idx = 0
    /\ canvas = None
    /\ r = 0
    /\ k = 0
    /\ x = 0
    /\ y = 0
    /\ tiles = <<>>
    /\ downloads = 0
    /\ fs = {}
    /\ result = "None"

\* lines 64-65: if not urls: raise ValueError
RaiseNoImages ==
    /\ pc = "start"
    /\ args.urls = <<>>
    /\ pc' = "raised"
    /\ result' = "ValueError"
    /\ UNCHANGED <<args, n, cols, row_count, rows_meta, idx, canvas, r, k, x, y,
                   tiles, downloads, fs>>
    /\ UNCHANGED notCollage

\* lines 67-73
Start ==
    /\ pc = "start"
    /\ args.urls # <<>>
    /\ n' = Len(args.urls)
    /\ cols' = ClampCols(args.cols)
    /\ row_count' = RowCount(n', cols')
    /\ rows_meta' = <<>>
    /\ idx' = 0
    /\ r' = 0
    /\ pc' = "plan"
    /\ UNCHANGED <<args, canvas, k, x, y, tiles, downloads, fs, result>>
    /\ UNCHANGED notCollage

\* lines 74-94: one iteration of the first pass
PlanRow ==
    /\ pc = "plan"
    /\ r < row_count
    /\ LET remaining == n - idx
           items_in_row == ItemsInRow(cols, remaining)
           cell_w == CellW(items_in_row, cols, args.canvas_w, args.margin, args.gutter)
           x_start == XStart(items_in_row, cols, args.canvas_w, args.margin, args.gutter)
           cell_h == CellH(cell_w, args.aspect_ratio)
       IN  /\ rows_meta' = Append(rows_meta,
                  [items |-> items_in_row, cell_w |-> cell_w,
                   cell_h |-> cell_h, x_start |-> x_start])
           /\ idx' = idx + items_in_row
    /\ r' = r + 1
    /\ UNCHANGED <<args, pc, n, cols, row_count, canvas, k, x, y, tiles,
                   downloads, fs, result>>
    /\ UNCHANGED notCollage

\* lines 96-104: the canvas, and the start of the second pass
AllocCanvas ==
    /\ pc = "plan"
    /\ r = row_count
    /\ canvas' = <<args.canvas_w, CanvasHDyn(rows_meta, args.margin, args.gutter)>>
    /\ idx' = 0
    /\ y' = args.margin
    /\ r' = 1
    /\ k' = 0
    /\ x' = IF rows_meta = <<>> THEN 0 ELSE rows_meta[1].x_start
    /\ pc' = "paste"
    /\ UNCHANGED <<args, n, cols, row_count, rows_meta, tiles, downloads, fs, result>>
    /\ UNCHANGED notCollage

\* lines 105-112: one tile; after the last tile of a row, the step to the
\* next row. An exception of the download would leave the function here.
PasteTile ==
    /\ pc = "paste"
    /\ r <= Len(rows_meta)
    /\ k < rows_meta[r].items
    /\ \E net \in NetOutcomes :
         LET row == rows_meta[r]
             img == DownloadImage(net)
             tile == ResizeIntoCell(img, row.cell_w, row.cell_h)
             last == (k + 1 >= row.items)
         IN  /\ downloads' = downloads + 1
             /\ idx' = idx + 1
             /\ IF img = "raise"
                THEN /\ pc' = "raised"
                     /\ result' = "RequestException"
                     /\ UNCHANGED <<tiles, r, k, x, y>>
                ELSE /\ tiles' = Append(tiles,
                            [url |-> args.urls[idx + 1], row |-> r, x |-> x, y |-> y,
                             w |-> tile.w, h |-> tile.h,
                             placeholder |-> tile.placeholder])
                     /\ k' = IF last THEN 0 ELSE k + 1
                     /\ r' = IF last THEN r + 1 ELSE r
                     /\ y' = IF last THEN y + row.cell_h + args.gutter ELSE y
                     /\ x' = IF ~last THEN x + row.cell_w + args.gutter
                             ELSE IF r + 1 <= Len(rows_meta)
                                  THEN rows_meta[r + 1].x_start
                                  ELSE x + row.cell_w + args.gutter
                     /\ UNCHANGED <<pc, result>>
    /\ UNCHANGED <<args, n, cols, row_count, rows_meta, canvas, fs>>
    /\ UNCHANGED notCollage

\* lines 114-116
Save ==
    /\ pc = "paste"
    /\ r > Len(rows_meta)
    /\ fs' = fs \cup {"makedirs", "save"}
    /\ result' = "out_path"
    /\ pc' = "done"
    /\ UNCHANGED <<args, n, cols, row_count, rows_meta, idx, canvas, r, k, x, y,
                   tiles, downloads>>
    /\ UNCHANGED notCollage

NextCollage ==
    \/ RaiseNoImages
    \/ Start
    \/ PlanRow
    \/ AllocCanvas
    \/ PasteTile
    \/ Save

(***************************************************************************)
(* Cover fit: _resize_into_cell (collage.py) and _center_crop_cover         *)
(* (onThisDay.py).                                                         *)
(***************************************************************************)
MaxDim == 6
CELL_W == 621
CELL_H == 387
CANVAS_WIDTH == 1242

RECURSIVE GCD(_, _)
GCD(a, b) == IF b = 0 THEN a ELSE GCD(b, a % b)

RECURSIVE IsPow2(_)
IsPow2(d) == d = 1 \/ (d > 1 /\ d % 2 = 0 /\ IsPow2(d \div 2))

\* num / den is a binary fraction, so the float holds it exactly
FloatExact(num, den) == IsPow2(den \div GCD(num, den))

\* the values int(round(a * (num / den))) can take. The quotient is rounded
\* to a float before the product: away from a half the error cannot change
\* the result; on an exact half, when num / den is not a binary fraction,
\* the product may land on either side of it.
RoundScaled(a, num, den) ==
    LET q == (a * num) \div den
        tie == (2 * a * num) % den = 0 /\ ((2 * a * num) \div den) % 2 = 1
    IN  IF tie /\ ~FloatExact(num, den) THEN {q, q + 1}
        ELSE {RoundDiv(a * num, den)}

\* the values int(round(a / (num / den))) can take, in the same way
RoundQuot(a, num, den) ==
    LET q == (a * den) \div num
        tie == (2 * a * den) % num = 0 /\ ((2 * a * den) \div num) % 2 = 1
    IN  IF tie /\ ~FloatExact(num, den) THEN {q, q + 1}
        ELSE {RoundDiv(a * den, num)}

\* the comparison turned round; a faulty variant
CoverWiderFlipped(sw, sh, tw, th) == sw * th < tw * sh

\* img_aspect > cell_aspect, for sizes far below 2^26 where the two float
\* quotients compare as the fractions do
CoverWider(sw, sh, tw, th) == sw * th > tw * sh

\* the sizes (new_w, new_h) the resize of cover mode can get
CoverNewSize(img, target) ==
    IF CoverWider(img[1], img[2], target[1], target[2])
    THEN {<<w, target[2]>> : w \in RoundScaled(target[2], img[1], img[2])}
    ELSE {<<target[1], h>> : h \in RoundQuot(target[1], img[1], img[2])}

\* the centred crop box
CropBox(new, target) ==
    LET left == (new[1] - target[1]) \div 2
        top == (new[2] - target[2]) \div 2
    IN  <<left, top, left + target[1], top + target[2]>>

\* _fit_keep_aspect: the heights int(round(h * (new_w / w))) can take
FitKeepAspect(img, target_w) ==
    {<<target_w, h>> : h \in RoundScaled(img[2], target_w, img[1])}

ImageSizes == ((1 .. MaxDim) \X (1 .. MaxDim)) \cup {<<1920, 1080>>}

TargetSizes == ((1 .. MaxDim) \X (1 .. MaxDim)) \cup {<<CELL_W, CELL_H>>, <<910, 512>>}

InitFit ==
    /\ f_fn \in {"_resize_into_cell", "_center_crop_cover"}
    /\ f_img \in IF f_fn = "_resize_into_cell" THEN ImageSizes \cup {None} ELSE ImageSizes
    /\ f_target \in TargetSizes
    /\ f_mode \in IF f_fn = "_resize_into_cell" THEN {"cover", "contain"} ELSE {"cover"}
    /\ f_pc = "call"
    /\ f_new = None
    /\ f_box = <<>>
    /\ f_out = None

\* neither function is called
IdleFit ==
    /\ f_fn = "idle"
    /\ f_img = None
    /\ f_target = <<1, 1>>
    /\ f_mode = "cover"
    /\ f_pc = "idle"
    /\ f_new = None
    /\ f_box = <<>>
    /\ f_out = None

\* collage.py lines 17-18: the placeholder for a failed download
RIC_Placeholder ==
    /\ f_pc = "call"
    /\ f_fn = "_resize_into_cell"
    /\ f_img = None
    /\ f_out' = f_target
    /\ f_pc' = "returned"
    /\ UNCHANGED <<f_fn, f_img, f_target, f_mode, f_new, f_box>>
    /\ UNCHANGED notFit

\* collage.py lines 19-28
RIC_Resize ==
    /\ f_pc = "call"
    /\ f_fn = "_resize_into_cell"
    /\ f_img # None
    /\ f_mode = "cover"
    /\ f_new' \in CoverNewSize(f_img, f_target)
    /\ f_pc' = "resized"
    /\ UNCHANGED <<f_fn, f_img, f_target, f_mode, f_box, f_out>>
    /\ UNCHANGED notFit

\* collage.py lines 29-31
RIC_Crop ==
    /\ f_pc = "resized"
    /\ f_fn = "_resize_into_cell"
    /\ f_box' = CropBox(f_new, f_target)
    /\ f_out' = <<f_box'[3] - f_box'[1], f_box'[4] - f_box'[2]>>
    /\ f_pc' = "returned"
    /\ UNCHANGED <<f_fn, f_img, f_target, f_mode, f_new>>
    /\ UNCHANGED notFit

\* collage.py lines 32-38: the fitted image on a canvas of the target size
RIC_Contain ==
    /\ f_pc = "call"
    /\ f_fn = "_resize_into_cell"
    /\ f_img # None
    /\ f_mode # "cover"
    /\ f_out' = f_target
    /\ f_pc' = "returned"
    /\ UNCHANGED <<f_fn, f_img, f_target, f_mode, f_new, f_box>>
    /\ UNCHANGED notFit

\* onThisDay.py lines 205-214
CCC_Resize ==
    /\ f_pc = "call"
    /\ f_fn = "_center_crop_cover"
    /\ f_new' \in CoverNewSize(f_img, f_target)
    /\ f_pc' = "resized"
    /\ UNCHANGED <<f_fn, f_img, f_target, f_mode, f_box, f_out>>
    /\ UNCHANGED notFit

\* onThisDay.py lines 215-217
CCC_Crop ==
    /\ f_pc = "resized"
    /\ f_fn = "_center_crop_cover"
    /\ f_box' = CropBox(f_new, f_target)
    /\ f_out' = <<f_box'[3] - f_box'[1], f_box'[4] - f_box'[2]>>
    /\ f_pc' = "returned"
    /\ UNCHANGED <<f_fn, f_img, f_target, f_mode, f_new>>
    /\ UNCHANGED notFit

NextFit ==
    \/ RIC_Placeholder
    \/ RIC_Resize
    \/ RIC_Crop
    \/ RIC_Contain
    \/ CCC_Resize
    \/ CCC_Crop

(***************************************************************************)
(* make_collage_1242 (onThisDay.py)                                        *)
(***************************************************************************)
MaxUrls1242 == 5
MaxCols1242 == 3
GRID_COLS == 2
GRID_MARGIN == 0
GRID_GUTTER == 0

\* a URL list may hold empty entries
UrlLists == UNION {[1 .. m -> {"u", ""}] : m \in 0 .. MaxUrls1242}

GridArgSet ==
    [urls : UrlLists,
     cols : {GRID_COLS} \cup (1 .. MaxCols1242),
     cell : {<<CELL_W, CELL_H>>, <<4, 3>>},
     margin : {GRID_MARGIN, MaxMargin},
     gutter : {GRID_GUTTER, MaxGutter},
     canvas_w : {CANVAS_WIDTH, 8}]

\* sizes of the image a single URL may deliver
SingleImageSizes == {<<1920, 1080>>, <<3, 2>>, <<8, 1>>}

IsUrl(u) == u # ""

\* urls = [u for u in urls if u]
FilterUrls(list) == SelectSeq(list, IsUrl)

\* _download_image of onThisDay.py: the exception of the request or of
\* raise_for_status is not caught
DownloadImage1242(net) == IF net = "ok" THEN "img" ELSE "raise"

\* lines 265-268: try: _download_image(url) / except: Image.new(cell)
GridFetch(net) == IF DownloadImage1242(net) = "raise" THEN "placeholder" ELSE "img"

\* the gutter between the full rows and the wide tile forgotten; a faulty
\* variant
TotalHNoJoin(len, c, cell_h, m, g) ==
    LET rows_base == len \div c
    IN  IF len % c = 1
        THEN 2 * m + rows_base * cell_h + Max(rows_base - 1, 0) * g + 2 * cell_h
        ELSE 2 * m + rows_base * cell_h + Max(rows_base - 1, 0) * g

\* lines 250-257
TotalH(len, c, cell_h, m, g) ==
    LET rows_base == len \div c
    IN  IF len % c = 1
        THEN 2 * m + rows_base * cell_h + Max(rows_base - 1, 0) * g
               + (IF rows_base > 0 THEN g ELSE 0) + 2 * cell_h
        ELSE 2 * m + rows_base * cell_h + Max(rows_base - 1, 0) * g

InitGrid ==
    /\ g_args \in GridArgSet
    /\ g_pc = "start"
    /\ g_urls = <<>>
    /\ g_n = 0
    /\ g_last_wide = FALSE
    /\ g_rows_base = 0
    /\ g_canvas = None
    /\ g_y = 0
    /\ g_col = 0
    /\ g_idx = 0
    /\ g_tiles = <<>>
    /\ g_downloads = 0
    /\ g_fs = {}
    /\ g_result = "None"

\* make_collage_1242 is not called
IdleGrid ==
    /\ g_args = [urls |-> <<>>, cols |-> GRID_COLS, cell |-> <<CELL_W, CELL_H>>,
                 margin |-> GRID_MARGIN, gutter |-> GRID_GUTTER,
                 canvas_w |-> CANVAS_WIDTH]
    /\ g_pc = "idle"
    /\ g_urls = <<>>
    /\ g_n = 0
    /\ g_last_wide = FALSE
    /\ g_rows_base = 0
    /\ g_canvas = None
    /\ g_y = 0
    /\ g_col = 0
    /\ g_idx = 0
    /\ g_tiles = <<>>
    /\ g_downloads = 0
    /\ g_fs = {}
    /\ g_result = "None"

\* lines 233-235
G_RaiseNoUrls ==
    /\ g_pc = "start"
    /\ FilterUrls(g_args.urls) = <<>>
    /\ g_pc' = "raised"
    /\ g_result' = "ValueError"
    /\ UNCHANGED <<g_args, g_urls, g_n, g_last_wide, g_rows_base, g_canvas, g_y,
                   g_col, g_idx, g_tiles, g_downloads, g_fs>>
    /\ UNCHANGED notGrid

\* lines 233, 237-244: the list of one URL. The download is not guarded
\* here: its exception leaves make_collage_1242.
G_Single ==
    /\ g_pc = "start"
    /\ Len(FilterUrls(g_args.urls)) = 1
    /\ g_urls' = FilterUrls(g_args.urls)
    /\ g_downloads' = g_downloads + 1
    /\ \E net \in NetOutcomes, size \in SingleImageSizes :
         IF DownloadImage1242(net) = "raise"
         THEN /\ g_pc' = "raised"
              /\ g_result' = "RequestException"
              /\ UNCHANGED <<g_canvas, g_tiles, g_fs>>
         ELSE \E fitted \in FitKeepAspect(size, g_args.canvas_w) :
                /\ g_canvas' = <<g_args.canvas_w, fitted[2]>>
                /\ g_tiles' = <<[url |-> 1, x |-> 0, y |-> 0, w |-> fitted[1],
                                 h |-> fitted[2], placeholder |-> FALSE]>>
                /\ g_fs' = g_fs \cup {"save"}
                /\ g_result' = "out_path"
                /\ g_pc' = "done"
    /\ UNCHANGED <<g_args, g_n, g_last_wide, g_rows_base, g_y, g_col, g_idx>>
    /\ UNCHANGED notGrid

\* lines 233, 246-262
G_Plan ==
    /\ g_pc = "start"
    /\ Len(FilterUrls(g_args.urls)) >= 2
    /\ g_urls' = FilterUrls(g_args.urls)
    /\ g_n' = Len(g_urls')
    /\ g_last_wide' = (g_n' % g_args.cols = 1)
    /\ g_rows_base' = g_n' \div g_args.cols
    /\ g_canvas' = <<g_args.canvas_w,
                     TotalH(g_n', g_args.cols, g_args.cell[2], g_args.margin,
                            g_args.gutter)>>
    /\ g_y' = g_args.margin
    /\ g_col' = 0
    /\ g_idx' = 0
    /\ g_pc' = "paste"
    /\ UNCHANGED <<g_args, g_tiles, g_downloads, g_fs, g_result>>
    /\ UNCHANGED notGrid

\* lines 264-283: one iteration of the loop
G_PasteTile ==
    /\ g_pc = "paste"
    /\ g_idx < g_n
    /\ \E net \in NetOutcomes :
         LET img == GridFetch(net)
             is_last == (g_idx = g_n - 1)
             cell_w == g_args.cell[1]
             cell_h == g_args.cell[2]
         IN  IF g_last_wide /\ is_last
             THEN /\ g_tiles' = Append(g_tiles,
                        [url |-> g_idx + 1, x |-> g_args.margin, y |-> g_y,
                         w |-> g_args.canvas_w - 2 * g_args.margin, h |-> cell_h * 2,
                         placeholder |-> (img = "placeholder")])
                  /\ g_pc' = "save"
                  /\ UNCHANGED <<g_col, g_y, g_idx>>
             ELSE /\ g_tiles' = Append(g_tiles,
                        [url |-> g_idx + 1,
                         x |-> g_args.margin + g_col * (cell_w + g_args.gutter),
                         y |-> g_y, w |-> cell_w, h |-> cell_h,
                         placeholder |-> (img = "placeholder")])
                  /\ g_col' = IF g_col + 1 >= g_args.cols THEN 0 ELSE g_col + 1
                  /\ g_y' = IF g_col + 1 >= g_args.cols
                            THEN g_y + cell_h + g_args.gutter ELSE g_y
                  /\ g_idx' = g_idx + 1
                  /\ g_pc' = IF g_idx + 1 < g_n THEN "paste" ELSE "save"
    /\ g_downloads' = g_downloads + 1
    /\ UNCHANGED <<g_args, g_urls, g_n, g_last_wide, g_rows_base, g_canvas, g_fs,
                   g_result>>
    /\ UNCHANGED notGrid

\* lines 285-286
G_Save ==
    /\ g_pc = "save"
    /\ g_fs' = g_fs \cup {"save"}
    /\ g_result' = "out_path"
    /\ g_pc' = "done"
    /\ UNCHANGED <<g_args, g_urls, g_n, g_last_wide, g_rows_base, g_canvas, g_y,
                   g_col, g_idx, g_tiles, g_downloads>>
    /\ UNCHANGED notGrid

NextGrid ==
    \/ G_RaiseNoUrls
    \/ G_Single
    \/ G_Plan
    \/ G_PasteTile
    \/ G_Save

(***************************************************************************)
(* Text measurement and the title fit of generateImage.py.  A string is a  *)
(* sequence of characters; a font is its size, and a glyph is as wide as   *)
(* its units times the size.                                               *)
(***************************************************************************)
MaxTitleLen == 7
MaxFitLen == 5
MaxWidth == 8
MaxSize == 2
MaxSpacing == 1

\* characters a title is made of
TitleChars == {"I", "W", " "}

Ellipsis == "..."

\* bbox[2] - bbox[0] of font.getbbox(ch), in units of the font size
GlyphUnits(ch) ==
    CASE ch = "I" -> 1
      [] ch = " " -> 1
      [] ch = "W" -> 4
      [] OTHER -> 2

RECURSIVE SumGlyphs(_, _, _)
\* the loop of text_width: total += (bbox[2] - bbox[0]) + spacing
SumGlyphs(str, size, spacing) ==
    IF str = <<>> THEN 0
    ELSE GlyphUnits(Head(str)) * size + spacing + SumGlyphs(Tail(str), size, spacing)

\* text_width(px_font, s, spacing)
TextWidth(str, size, spacing) ==
    IF str = <<>> THEN 0 ELSE SumGlyphs(str, size, spacing) - spacing

RECURSIVE SplitOn(_, _, _)
\* the pieces of str between spaces, cur being the piece that is open;
\* with keep, empty pieces are kept
SplitOn(str, cur, keep) ==
    IF str = <<>>
    THEN IF cur # <<>> \/ keep THEN <<cur>> ELSE <<>>
    ELSE IF Head(str) = " "
         THEN (IF cur # <<>> \/ keep THEN <<cur>> ELSE <<>>)
                \o SplitOn(Tail(str), <<>>, keep)
         ELSE SplitOn(Tail(str), Append(cur, Head(str)), keep)

\* str.split(): runs of whitespace separate, no empty word
SplitWords(str) == SplitOn(str, <<>>, FALSE)

RECURSIVE Join(_)
\* " ".join(words)
Join(words) ==
    IF words = <<>> THEN <<>>
    ELSE IF Len(words) = 1 THEN words[1]
    ELSE words[1] \o <<" ">> \o Join(Tail(words))

\* the orphan penalty dropped; a faulty variant
OrphanPenaltyNone(brk, nwords, min_words_per_line) == 0

\* line 98
OrphanPenalty(brk, nwords, min_words_per_line) ==
    IF brk < min_words_per_line \/ nwords - brk < min_words_per_line THEN 3000 ELSE 0

\* only the first line measured against max_width; a faulty variant
FitsFirstOnly(w1, w2, max_width) == w1 <= max_width

\* line 103
Fits(w1, w2, max_width) == w1 <= max_width /\ w2 <= max_width

Abs(a) == IF a < 0 THEN -a ELSE a

\* lines 104-106
Score(w1, w2, orphan_penalty) == (Abs(w1 - w2) * 1000) + (w1 + w2) + orphan_penalty

RECURSIVE WrapLoop(_, _, _, _, _, _, _)
\* lines 93-109 from break position brk on; best is [lines, score], with
\* lines = None while no split has fitted
WrapLoop(words, brk, best, size, max_width, spacing, min_words_per_line) ==
    IF brk >= Len(words) THEN best
    ELSE LET line1 == Join(SubSeq(words, 1, brk))
             line2 == Join(SubSeq(words, brk + 1, Len(words)))
             orphan_penalty == OrphanPenalty(brk, Len(words), min_words_per_line)
             w1 == TextWidth(line1, size, spacing)
             w2 == TextWidth(line2, size, spacing)
             score == Score(w1, w2, orphan_penalty)
             next == IF Fits(w1, w2, max_width)
                        /\ (best.lines = None \/ score < best.score)
                     THEN [lines |-> <<line1, line2>>, score |-> score]
                     ELSE best
         IN  WrapLoop(words, brk + 1, next, size, max_width, spacing,
                      min_words_per_line)

\* best_two_line_wrap: None, or [line1, line2]
BestTwoLineWrap(title, size, max_width, spacing, min_words_per_line) ==
    LET words == SplitWords(title)
    IN  IF Len(words) <= 1 THEN None
        ELSE WrapLoop(words, 1, [lines |-> None, score |-> 0], size, max_width,
                      spacing, min_words_per_line).lines

RECURSIVE GreedyLine1(_, _, _, _, _, _)
\* lines 141-149: [line1, i]
GreedyLine1(words, i, line1, size, max_width, spacing) ==
    IF i >= Len(words) THEN [line1 |-> line1, i |-> i]
    ELSE LET test == IF line1 = <<>> THEN words[i + 1]
                     ELSE line1 \o <<" ">> \o words[i + 1]
         IN  IF TextWidth(test, size, spacing) <= max_width
             THEN GreedyLine1(words, i + 1, test, size, max_width, spacing)
             ELSE [line1 |-> line1, i |-> i]

RECURSIVE GreedyLine2NoEllipsis(_, _, _, _, _)
\* the second line cut without its ellipsis; a faulty variant
GreedyLine2NoEllipsis(rest, line2, size, max_width, spacing) ==
    IF rest = <<>> THEN line2
    ELSE LET w == Head(rest)
             test2 == IF line2 = <<>> THEN w ELSE line2 \o <<" ">> \o w
         IN  IF TextWidth(test2 \o <<" ", Ellipsis>>, size, spacing) <= max_width
             THEN GreedyLine2NoEllipsis(Tail(rest), test2, size, max_width, spacing)
             ELSE IF line2 # <<>> THEN line2 ELSE w

RECURSIVE GreedyLine2(_, _, _, _, _)
\* lines 153-160 over the words of remaining that are left
GreedyLine2(rest, line2, size, max_width, spacing) ==
    IF rest = <<>> THEN line2
    ELSE LET w == Head(rest)
             test2 == IF line2 = <<>> THEN w ELSE line2 \o <<" ">> \o w
         IN  IF TextWidth(test2 \o <<" ", Ellipsis>>, size, spacing) <= max_width
             THEN GreedyLine2(Tail(rest), test2, size, max_width, spacing)
             ELSE IF line2 # <<>> THEN line2 \o <<" ", Ellipsis>>
                  ELSE w \o <<" ", Ellipsis>>

\* lines 137-166: the forced fit at min_size
ForceFit(title, size, max_width, spacing) ==
    LET words == SplitWords(title)
        g == GreedyLine1(words, 0, <<>>, size, max_width, spacing)
        remaining == Join(SubSeq(words, g.i + 1, Len(words)))
        greedy2 == GreedyLine2(SplitWords(remaining), <<>>, size, max_width, spacing)
        line2 == IF greedy2 = <<>> /\ remaining # <<>>
                 THEN SplitWords(remaining)[1] \o <<" ", Ellipsis>>
                 ELSE greedy2
    IN  IF line2 = <<>> THEN <<g.line1>> ELSE <<g.line1, line2>>

Titles == UNION {[1 .. m -> TitleChars] : m \in 0 .. MaxTitleLen}

\* the titles that are fitted: three words at most
FitTitles == UNION {[1 .. m -> TitleChars] : m \in 0 .. MaxFitLen}

InitTitle ==
    /\ t_fn = "fit_title_to_two_lines"
    /\ t_title \in FitTitles
    /\ t_max_width \in 0 .. MaxWidth
    /\ t_spacing \in -1 .. MaxSpacing
    /\ t_initial \in 1 .. MaxSize
    /\ t_min \in 1 .. MaxSize
    /\ t_size = t_initial
    /\ t_pc = "call"
    /\ t_lines = None
    /\ t_font = 0

\* a call of best_two_line_wrap with a font of size t_size
InitWrap ==
    /\ t_fn = "best_two_line_wrap"
    /\ t_title \in Titles
    /\ t_max_width \in 0 .. MaxWidth
    /\ t_spacing \in -1 .. MaxSpacing
    /\ t_size \in 1 .. MaxSize
    /\ t_initial = t_size
    /\ t_min = 1
    /\ t_pc = "call"
    /\ t_lines = None
    /\ t_font = 0

\* neither function is called
IdleTitle ==
    /\ t_fn = "idle"
    /\ t_title = <<>>
    /\ t_max_width = 0
    /\ t_spacing = 0
    /\ t_initial = 1
    /\ t_min = 1
    /\ t_size = 1
    /\ t_pc = "idle"
    /\ t_lines = None
    /\ t_font = 0

\* lines 86-111: one call of best_two_line_wrap, min_words_per_line = 2
T_Wrap ==
    /\ t_pc = "call"
    /\ t_fn = "best_two_line_wrap"
    /\ t_lines' = BestTwoLineWrap(t_title, t_size, t_max_width, t_spacing, 2)
    /\ t_font' = t_size
    /\ t_pc' = "returned"
    /\ UNCHANGED <<t_fn, t_title, t_max_width, t_spacing, t_initial, t_min, t_size>>
    /\ UNCHANGED notTitle

\* lines 122-134: one iteration of the loop over the sizes
T_TrySize ==
    /\ t_pc = "call"
    /\ t_fn = "fit_title_to_two_lines"
    /\ t_size >= t_min
    /\ LET split == BestTwoLineWrap(t_title, t_size, t_max_width, t_spacing, 2)
       IN  IF TextWidth(t_title, t_size, t_spacing) <= t_max_width
           THEN /\ t_lines' = <<t_title>>
                /\ t_font' = t_size
                /\ t_pc' = "returned"
                /\ UNCHANGED t_size
           ELSE IF split # None
           THEN /\ t_lines' = split
                /\ t_font' = t_size
                /\ t_pc' = "returned"
                /\ UNCHANGED t_size
           ELSE /\ t_size' = t_size - 1
                /\ UNCHANGED <<t_lines, t_font, t_pc>>
    /\ UNCHANGED <<t_fn, t_title, t_max_width, t_spacing, t_initial, t_min>>
    /\ UNCHANGED notTitle

\* lines 136-166: no size fitted
T_ForceFit ==
    /\ t_pc = "call"
    /\ t_fn = "fit_title_to_two_lines"
    /\ t_size < t_min
    /\ t_lines' = ForceFit(t_title, t_min, t_max_width, t_spacing)
    /\ t_font' = t_min
    /\ t_pc' = "fallback"
    /\ UNCHANGED <<t_fn, t_title, t_max_width, t_spacing, t_initial, t_min, t_size>>
    /\ UNCHANGED notTitle

NextWrap == T_Wrap

NextTitle ==
    \/ T_TrySize
    \/ T_ForceFit

(***************************************************************************)
(* The colorized word wrap of the sale-info line (generateImage.py).       *)
(***************************************************************************)
MaxWidthSteps == 12
WidthStep == 6

White == "(255, 255, 255)"

Cyan == "(149, 239, 255)"

\* store_label: the fixed label of a platform, or region + " ESHOP"
StoreLabels ==
    {<<"U", "S", " ", "E", "S", "H", "O", "P">>,
     <<" ", "E", "S", "H", "O", "P">>,
     <<"N", "E", "W", " ", "Z", "E", "A", "L", "A", "N", "D", " ", "E", "S", "H", "O", "P">>}

\* "PHP " + formatted_price + ".00"
PriceTexts ==
    {<<"P", "H", "P", " ", "0", ".", "0", "0">>,
     <<"P", "H", "P", " ", "1", ",", "2", "9", "9", ".", "0", "0">>}

\* sale_ends: a formatted date, or N/A
SaleEnds == {<<"J", "A", "N", " ", "0", "5">>, <<"N", "/", "A">>}

Segments(store_label, price_text, sale_ends) ==
    <<[text |-> <<"I", "S", " ", "O", "N", " ", "S", "A", "L", "E", " ", "O", "N">>,
       color |-> White, should_split |-> TRUE],
      [text |-> store_label, color |-> Cyan, should_split |-> FALSE],
      [text |-> <<"F", "O", "R">>, color |-> White, should_split |-> TRUE],
      [text |-> price_text, color |-> Cyan, should_split |-> FALSE],
      [text |-> <<"U", "N", "T", "I", "L">>, color |-> White, should_split |-> TRUE],
      [text |-> sale_ends, color |-> Cyan, should_split |-> FALSE]>>

\* text_seg.split(" "): every space separates, empty pieces are kept
SplitSpace(str) == SplitOn(str, <<>>, TRUE)

RECURSIVE Colored(_, _)
\* the words with the color of their segment
Colored(words, color) ==
    IF words = <<>> THEN <<>>
    ELSE <<[word |-> Head(words), color |-> color]>> \o Colored(Tail(words), color)

RECURSIVE WordsColored(_)
\* lines 226-232
WordsColored(segments) ==
    IF segments = <<>> THEN <<>>
    ELSE LET seg == Head(segments)
         IN  (IF seg.should_split THEN Colored(SplitSpace(seg.text), seg.color)
              ELSE <<[word |-> seg.text, color |-> seg.color]>>)
             \o WordsColored(Tail(segments))

\* line 234
SpaceWidth(size) == GlyphUnits(" ") * size

\* the space between the words left out; a faulty variant
ProjectedNoSpace(current_width, space_width, w_width, nonempty) ==
    current_width + w_width

\* lines 241-244
Projected(current_width, space_width, w_width, nonempty) ==
    IF nonempty THEN current_width + space_width + w_width
    ELSE current_width + w_width

\* the word that opens a line is lost; a faulty variant
NewLineEmpty(word, color) == <<>>

\* line 248
NewLine(word, color) == <<[word |-> word, color |-> color]>>

InitSale ==
    /\ \E store_label \in StoreLabels, price_text \in PriceTexts, sale_ends \in SaleEnds :
          s_segments = Segments(store_label, price_text, sale_ends)
    /\ s_max \in {i * WidthStep : i \in 0 .. MaxWidthSteps}
    /\ s_size \in 1 .. MaxSize
    /\ s_spacing \in -1 .. MaxSpacing
    /\ s_pc = "segments"
    /\ s_words = <<>>
    /\ s_i = 0
    /\ s_current_line = <<>>
    /\ s_current_width = 0
    /\ s_wrapped = <<>>

\* the wrap does not run
IdleSale ==
    /\ s_segments = <<>>
    /\ s_max = 0
    /\ s_size = 1
    /\ s_spacing = 0
    /\ s_pc = "idle"
    /\ s_words = <<>>
    /\ s_i = 0
    /\ s_current_line = <<>>
    /\ s_current_width = 0
    /\ s_wrapped = <<>>

\* lines 225-237
S_BuildWords ==
    /\ s_pc = "segments"
    /\ s_words' = WordsColored(s_segments)
    /\ s_pc' = "wrap"
    /\ UNCHANGED <<s_segments, s_max, s_size, s_spacing, s_i, s_current_line,
                   s_current_width, s_wrapped>>
    /\ UNCHANGED notSale

\* lines 239-254: one word of the loop
S_Word ==
    /\ s_pc = "wrap"
    /\ s_i < Len(s_words)
    /\ LET word == s_words[s_i + 1].word
           color == s_words[s_i + 1].color
           w_width == TextWidth(word, s_size, s_spacing)
           projected == Projected(s_current_width, SpaceWidth(s_size), w_width,
                                  s_current_line # <<>>)
       IN  IF projected > s_max /\ s_current_line # <<>>
           THEN /\ s_wrapped' = Append(s_wrapped, s_current_line)
                /\ s_current_line' = NewLine(word, color)
                /\ s_current_width' = w_width
           ELSE /\ s_current_width' = IF s_current_line # <<>>
                                      THEN s_current_width + SpaceWidth(s_size) + w_width
                                      ELSE w_width
                /\ s_current_line' = Append(s_current_line, [word |-> word, color |-> color])
                /\ UNCHANGED s_wrapped
    /\ s_i' = s_i + 1
    /\ UNCHANGED <<s_segments, s_max, s_size, s_spacing, s_pc, s_words>>
    /\ UNCHANGED notSale

\* lines 256-257
S_Flush ==
    /\ s_pc = "wrap"
    /\ s_i = Len(s_words)
    /\ s_wrapped' = IF s_current_line # <<>> THEN Append(s_wrapped, s_current_line)
                    ELSE s_wrapped
    /\ s_pc' = "done"
    /\ UNCHANGED <<s_segments, s_max, s_size, s_spacing, s_words, s_i, s_current_line,
                   s_current_width>>
    /\ UNCHANGED notSale

NextSale ==
    \/ S_BuildWords
    \/ S_Word
    \/ S_Flush

(***************************************************************************)
(* Text measurement and the width fit of onThisDay.py.  A font is the size *)
(* it was loaded at, or the size of the default font when FONT_PATH does   *)
(* not load.                                                               *)
(***************************************************************************)
MaxBase == 8
MaxMinPx == 4
MaxFitWidth == 20
MaxStroke == 1

\* a floor of 12 px; a faulty variant
FloorOfTwelve == 2 * 6

MIN_FONT_SIZE_PX == 18

\* the size of the font of ImageFont.load_default()
DefaultFontSize == 10

\* _load_font(size_px): the size of the font that is returned
LoadFont(size_px, font_ok) == IF font_ok THEN size_px ELSE DefaultFontSize

\* the height of a glyph in tenths of the font size: capitals, and the rest
GlyphHeightTenths(ch) == IF ch \in {"I", "W"} THEN 7 ELSE 10

\* the height of the tallest glyph of the text, 0 for no glyph
TallestGlyph(str) ==
    IF str = <<>> THEN 0
    ELSE CHOOSE t \in {GlyphHeightTenths(str[i]) : i \in 1 .. Len(str)} :
             \A i \in 1 .. Len(str) : GlyphHeightTenths(str[i]) <= t

\* _text_size(draw, text, font, stroke): <<w, h>>, the stroke on every side
TextSize(str, font, stroke) ==
    <<TextWidth(str, font, 0) + 2 * stroke,
      ((TallestGlyph(str) * font) \div 10) + 2 * stroke>>

\* the sizes tried one by one, whatever the step; a faulty variant
NextTryOne(size, step) == size - 1

\* line 315
NextTry(size, step) == size - step

RECURSIVE FitLoop(_, _, _, _, _, _, _)
\* lines 309-316: the loop from size on, and the return after it
FitLoop(str, size, max_width, stroke, min_px, step, font_ok) ==
    IF size > min_px
    THEN IF TextSize(str, LoadFont(size, font_ok), stroke)[1] <= max_width
         THEN size
         ELSE FitLoop(str, NextTry(size, step), max_width, stroke, min_px, step, font_ok)
    ELSE min_px

\* _fit_font_to_width: size_px of the pair returned
FitFontToWidth(str, base_size, max_width, stroke, min_px, step, font_ok) ==
    IF str = <<>> THEN base_size
    ELSE FitLoop(str, base_size, max_width, stroke, min_px, step, font_ok)

FontTexts == {<<>>, <<"I">>, <<"W">>, <<"W", "I">>}

InitFont ==
    /\ p_text \in FontTexts
    /\ p_base_size \in 1 .. MaxBase
    /\ p_max_width \in 0 .. MaxFitWidth
    /\ p_stroke \in 0 .. MaxStroke
    /\ p_min_px \in 1 .. MaxMinPx
    /\ p_step \in {1, 2}
    /\ p_font_ok \in BOOLEAN
    /\ p_pc = "call"
    /\ p_size = 0

\* _fit_font_to_width is not called
IdleFont ==
    /\ p_text = <<>>
    /\ p_base_size = 1
    /\ p_max_width = 0
    /\ p_stroke = 0
    /\ p_min_px = 1
    /\ p_step = 1
    /\ p_font_ok = TRUE
    /\ p_pc = "idle"
    /\ p_size = 0

\* lines 302-316
P_Fit ==
    /\ p_pc = "call"
    /\ p_size' = FitFontToWidth(p_text, p_base_size, p_max_width, p_stroke, p_min_px,
                                p_step, p_font_ok)
    /\ p_pc' = "returned"
    /\ UNCHANGED <<p_text, p_base_size, p_max_width, p_stroke, p_min_px, p_step, p_font_ok>>
    /\ UNCHANGED notFont

NextFont == P_Fit

(***************************************************************************)
(* add_gradient_background (onThisDay.py): the rows of the band and of the *)
(* image.                                                                  *)
(***************************************************************************)
MaxCenterY == 8
MaxBandHeight == 3
MaxFade == 2
MaxImgHeight == 4

\* line 361
BandH(height, fade) == height + 2 * fade

\* line 380
BandTop(center_y, height, fade) == center_y - ((height \div 2) + fade)

\* line 384
ClampTop(band_top) == Max(0, band_top)

\* line 385
ClampBottom(img_height, band_bottom) == Min(img_height, band_bottom)

\* lines 361-402: what one call does.  Image.resize rejects a size below 1,
\* so an empty band (height = 0 and fade = 0) raises at line 374.
GradientBackground(center_y, height, fade, img_height) ==
    LET band_h == BandH(height, fade)
        band_top == BandTop(center_y, height, fade)
        band_bottom == band_top + band_h
        top == ClampTop(band_top)
        bottom == ClampBottom(img_height, band_bottom)
        crop_top == top - band_top
        crop_bottom == crop_top + (bottom - top)
    IN  IF band_h < 1
        THEN [kind |-> "ValueError", crop |-> None, paste |-> None,
              solid_top |-> 0, solid_bottom |-> 0]
        ELSE IF bottom <= top
        THEN LET solid_top == center_y - (height \div 2)
                 solid_bottom == solid_top + height
             IN  [kind |-> "unchanged", crop |-> None, paste |-> None,
                  solid_top |-> Max(0, solid_top),
                  solid_bottom |-> Min(img_height, solid_bottom)]
        ELSE LET solid_top == Max(0, center_y - (height \div 2))
                 solid_bottom == Min(img_height, solid_top + height)
             IN  [kind |-> "composited", crop |-> <<crop_top, crop_bottom>>,
                  paste |-> <<top, top + (crop_bottom - crop_top)>>,
                  solid_top |-> solid_top, solid_bottom |-> solid_bottom]

InitBand ==
    /\ b_args \in [center_y : (0 - MaxCenterY) .. MaxCenterY,
                   height : 0 .. MaxBandHeight,
                   fade : 0 .. MaxFade,
                   img_height : 1 .. MaxImgHeight]
    /\ b_pc = "call"
    /\ b_crop = None
    /\ b_paste = None
    /\ b_result = [kind |-> "none", solid_top |-> 0, solid_bottom |-> 0]

\* add_gradient_background is not called
IdleBand ==
    /\ b_args = [center_y |-> 0, height |-> 0, fade |-> 0, img_height |-> 1]
    /\ b_pc = "idle"
    /\ b_crop = None
    /\ b_paste = None
    /\ b_result = [kind |-> "none", solid_top |-> 0, solid_bottom |-> 0]

GradientCall ==
    GradientBackground(b_args.center_y, b_args.height, b_args.fade, b_args.img_height)

BandReturn(g) ==
    /\ b_crop' = g.crop
    /\ b_paste' = g.paste
    /\ b_result' = [kind |-> g.kind, solid_top |-> g.solid_top,
                    solid_bottom |-> g.solid_bottom]
    /\ b_pc' = "done"
    /\ UNCHANGED b_args
    /\ UNCHANGED notBand

\* lines 360-374: the band has no row, resize raises
B_EmptyBand ==
    /\ b_pc = "call"
    /\ GradientCall.kind = "ValueError"
    /\ BandReturn(GradientCall)

\* lines 360-389: the band misses the image, which is returned as it is
B_NoOverlap ==
    /\ b_pc = "call"
    /\ GradientCall.kind = "unchanged"
    /\ BandReturn(GradientCall)

\* lines 360-402: the band is cropped, pasted and composited
B_Composite ==
    /\ b_pc = "call"
    /\ GradientCall.kind = "composited"
    /\ BandReturn(GradientCall)

NextBand ==
    \/ B_EmptyBand
    \/ B_NoOverlap
    \/ B_Composite

(***************************************************************************)
(* add_text_overlay (onThisDay.py): the sizes of the lines, the shrink to  *)
(* the band and the placement.                                             *)
(***************************************************************************)
BAND_SOLID_HEIGHT == 200
BAND_FADE == 200
BAND_INNER_PADDING == 8
BAND_LEEWAY == 60
BASE_FONT_SIZE_PX == 88
STROKE_PX == 0
TEXT_CENTER_Y == 774
LINE_SPACING_PX == 10
LINE1_MAX_WIDTH_PX == 1100
LINE2_MAX_WIDTH_PX == 1100
LINE3_MAX_WIDTH_PX == 1100

\* the default step of _fit_font_to_width
FitStep == 2

\* the longest text is MaxTextLen glyphs long
MaxTextLen == 16

Rep(ch, m) == [i \in 1 .. m |-> ch]

\* a short line, a line that is too wide at the base size, a line with a
\* tall glyph, and a line that is too wide at every size
OverlayTexts ==
    {Rep("W", 2), Rep("W", 3) \o <<"I">>, <<"y", "W", "W">>, Rep("W", MaxTextLen)}

\* images lower than the band, cutting it, and higher
OverlayImgHeights == {100, 580, 700, 800, 1548}

\* wh(txt, fnt) of lines 458-461: the height
LineHeight(txt, sz, font_ok) ==
    IF txt = <<>> THEN 0 ELSE TextSize(txt, LoadFont(sz, font_ok), STROKE_PX)[2]

\* one entry of lines, fitted by width from the base new_base
FittedLine(key, txt, new_base, max_w, font_ok) ==
    LET sz == FitFontToWidth(txt, new_base, max_w, STROKE_PX, MIN_FONT_SIZE_PX, FitStep,
                             font_ok)
    IN  [key |-> key, txt |-> txt, sz |-> sz, hh |-> LineHeight(txt, sz, font_ok),
         max_w |-> max_w]

RECURSIVE SumHH(_)
SumHH(lines) == IF lines = <<>> THEN 0 ELSE Head(lines).hh + SumHH(Tail(lines))

\* lines 472-473, 498-499, 509-510
BlockHeight(lines) == SumHH(lines) + Max(Len(lines) - 1, 0) * LINE_SPACING_PX

\* lines 477-480
AvailableH(solid_top, solid_bottom) ==
    Max(0, (solid_bottom - solid_top) + 2 * BAND_LEEWAY - 2 * BAND_INNER_PADDING)

\* int(sz * scale), scale = available_h / total_h: a product that is a whole
\* number may come out just below it when the scale is not exact in binary;
\* a product with 0 is 0
IntScaled(sz, available_h, total_h) ==
    LET q == (sz * available_h) \div total_h
    IN  IF /\ sz * available_h # 0
           /\ (sz * available_h) % total_h = 0
           /\ ~FloatExact(available_h, total_h)
        THEN {q, q - 1}
        ELSE {q}

RECURSIVE ScaledSizes(_, _, _)
\* the values int(sz * scale) can take, line by line
ScaledSizes(lines, available_h, total_h) ==
    IF lines = <<>> THEN {<<>>}
    ELSE {<<c>> \o rest : c \in IntScaled(Head(lines).sz, available_h, total_h),
                          rest \in ScaledSizes(Tail(lines), available_h, total_h)}

\* the size is kept; a faulty variant
NextBaseSame(sz) == Max(MIN_FONT_SIZE_PX, sz)

\* line 504
NextBase(sz) == Max(MIN_FONT_SIZE_PX, sz - 1)

AnyAboveMin(lines) == \E i \in 1 .. Len(lines) : lines[i].sz > MIN_FONT_SIZE_PX

InitOverlay ==
    /\ o_texts \in OverlayTexts \X (OverlayTexts \cup {<<>>}) \X OverlayTexts
    /\ o_img_height \in OverlayImgHeights
    /\ o_font_ok \in BOOLEAN
    /\ o_pc = "call"
    /\ o_solid = <<0, 0>>
    /\ o_lines = <<>>
    /\ o_total_h = 0
    /\ o_available_h = 0
    /\ o_scaled = FALSE
    /\ o_top_y = 0

\* the same calls without the line that is too wide at every size
InitOverlayShort ==
    /\ InitOverlay
    /\ \A i \in 1 .. 3 : Len(o_texts[i]) < MaxTextLen

\* add_text_overlay is not called
IdleOverlay ==
    /\ o_texts = <<<<>>, <<>>, <<>>>>
    /\ o_img_height = 0
    /\ o_font_ok = TRUE
    /\ o_pc = "idle"
    /\ o_solid = <<0, 0>>
    /\ o_lines = <<>>
    /\ o_total_h = 0
    /\ o_available_h = 0
    /\ o_scaled = FALSE
    /\ o_top_y = 0

\* lines 413-480: the band, the three lines fitted by width, the heights
O_Measure ==
    /\ o_pc = "call"
    /\ LET g == GradientBackground(TEXT_CENTER_Y, BAND_SOLID_HEIGHT, BAND_FADE, o_img_height)
           l1 == FittedLine("line1", o_texts[1], BASE_FONT_SIZE_PX, LINE1_MAX_WIDTH_PX,
                            o_font_ok)
           l2 == FittedLine("line2", o_texts[2], BASE_FONT_SIZE_PX, LINE2_MAX_WIDTH_PX,
                            o_font_ok)
           l3 == FittedLine("line3", o_texts[3], BASE_FONT_SIZE_PX, LINE3_MAX_WIDTH_PX,
                            o_font_ok)
           lines == (IF o_texts[1] # <<>> THEN <<l1>> ELSE <<>>)
                      \o (IF o_texts[2] # <<>> THEN <<l2>> ELSE <<>>)
                      \o (IF o_texts[3] # <<>> THEN <<l3>> ELSE <<>>)
       IN  /\ o_solid' = <<g.solid_top, g.solid_bottom>>
           /\ o_lines' = lines
           /\ o_total_h' = BlockHeight(o_lines')
           /\ o_available_h' = AvailableH(g.solid_top, g.solid_bottom)
    /\ o_pc' = "measured"
    /\ UNCHANGED <<o_texts, o_img_height, o_font_ok, o_scaled, o_top_y>>
    /\ UNCHANGED notOverlay

\* lines 482-499: the proportional rescale and the refit by width
O_Rescale ==
    /\ o_pc = "measured"
    /\ o_total_h > o_available_h
    /\ o_available_h > 0
    /\ \E scaled \in ScaledSizes(o_lines, o_available_h, o_total_h) :
          /\ LET new_lines ==
                     [i \in 1 .. Len(o_lines) |->
                         FittedLine(o_lines[i].key, o_lines[i].txt,
                                    Max(MIN_FONT_SIZE_PX, scaled[i]), o_lines[i].max_w,
                                    o_font_ok)]
             IN  /\ o_lines' = new_lines
                 /\ o_total_h' = BlockHeight(o_lines')
    /\ o_scaled' = TRUE
    /\ o_pc' = "squeeze"
    /\ UNCHANGED <<o_texts, o_img_height, o_font_ok, o_solid, o_available_h, o_top_y>>
    /\ UNCHANGED notOverlay

\* lines 501-510: one iteration of the final squeeze
O_Squeeze ==
    /\ o_pc = "squeeze"
    /\ o_total_h > o_available_h
    /\ AnyAboveMin(o_lines)
    /\ LET squeezed ==
               [i \in 1 .. Len(o_lines) |->
                   FittedLine(o_lines[i].key, o_lines[i].txt, NextBase(o_lines[i].sz),
                              o_lines[i].max_w, o_font_ok)]
       IN  /\ o_lines' = squeezed
           /\ o_total_h' = BlockHeight(o_lines')
    /\ UNCHANGED <<o_texts, o_img_height, o_font_ok, o_pc, o_solid, o_available_h,
                   o_scaled, o_top_y>>
    /\ UNCHANGED notOverlay

\* lines 512-541: the placement on the solid band, and the drawing
O_Place ==
    /\ \/ o_pc = "measured" /\ ~(o_total_h > o_available_h /\ o_available_h > 0)
       \/ o_pc = "squeeze" /\ ~(o_total_h > o_available_h /\ AnyAboveMin(o_lines))
    /\ LET band_center == (o_solid[1] + o_solid[2]) \div 2
           centered == RoundDiv(2 * band_center - o_total_h, 2)
           upper == o_solid[1] - BAND_LEEWAY + BAND_INNER_PADDING
           lower == o_solid[2] + BAND_LEEWAY - BAND_INNER_PADDING
           raised == IF centered < upper THEN upper ELSE centered
       IN  o_top_y' = IF raised + o_total_h > lower THEN lower - o_total_h ELSE raised
    /\ o_pc' = "done"
    /\ UNCHANGED <<o_texts, o_img_height, o_font_ok, o_solid, o_lines, o_total_h,
                   o_available_h, o_scaled>>
    /\ UNCHANGED notOverlay

NextOverlay ==
    \/ O_Measure
    \/ O_Rescale
    \/ O_Squeeze
    \/ O_Place

(***************************************************************************)
(* add_gradient_background (onThisDay.py): the alpha column.               *)
(***************************************************************************)
MaxAlphaHeight == 3
MaxAlphaFade == 4

\* the opacities that are passed: a number num / den, or a value float()
\* rejects
Opacities ==
    {[ok |-> TRUE, num |-> 0 - 1, den |-> 2], [ok |-> TRUE, num |-> 0, den |-> 1],
     [ok |-> TRUE, num |-> 1, den |-> 2], [ok |-> TRUE, num |-> 9, den |-> 10],
     [ok |-> TRUE, num |-> 1, den |-> 1], [ok |-> TRUE, num |-> 3, den |-> 2],
     [ok |-> FALSE, num |-> 0, den |-> 1]}

\* lines 354-358
ClampOpacity(opacity) ==
    IF ~opacity.ok THEN <<1, 1>>
    ELSE IF opacity.num < 0 THEN <<0, 1>>
    ELSE IF opacity.num > opacity.den THEN <<1, 1>>
    ELSE <<opacity.num, opacity.den>>

\* lines 366-371: the values a can take before the opacity is applied
RawAlpha(row, height, fade) ==
    IF row < fade THEN IntScaled(255, row, Max(1, fade))
    ELSE IF row < fade + height THEN {255}
    ELSE IntScaled(255, Max(1, fade) - (row - fade - height), Max(1, fade))

\* line 372: int(a * opacity)
ScaledAlpha(raw, opacity) == IntScaled(raw, opacity[1], opacity[2])

InitAlpha ==
    /\ a_args \in [height : 0 .. MaxAlphaHeight, fade : 0 .. MaxAlphaFade,
                   opacity : Opacities]
    /\ a_pc = "call"
    /\ a_opacity = <<1, 1>>
    /\ a_y = 0
    /\ a_raw = <<>>
    /\ a_col = <<>>

\* add_gradient_background is not called
IdleAlpha ==
    /\ a_args = [height |-> 0, fade |-> 0, opacity |-> [ok |-> FALSE, num |-> 0, den |-> 1]]
    /\ a_pc = "idle"
    /\ a_opacity = <<1, 1>>
    /\ a_y = 0
    /\ a_raw = <<>>
    /\ a_col = <<>>

\* lines 353-364: the clamp of the opacity, the empty column
A_Clamp ==
    /\ a_pc = "call"
    /\ a_opacity' = ClampOpacity(a_args.opacity)
    /\ a_pc' = "loop"
    /\ UNCHANGED <<a_args, a_y, a_raw, a_col>>
    /\ UNCHANGED notAlpha

\* lines 365-373: one row of the column.  The same product gives the same
\* value on every row.
A_Row ==
    /\ a_pc = "loop"
    /\ a_y < BandH(a_args.height, a_args.fade)
    /\ \E raw \in RawAlpha(a_y, a_args.height, a_args.fade) :
          \E a \in ScaledAlpha(raw, a_opacity) :
             /\ \A j \in 1 .. Len(a_raw) : a_raw[j] = raw => a_col[j] = a
             /\ a_raw' = Append(a_raw, raw)
             /\ a_col' = Append(a_col, a)
    /\ a_y' = a_y + 1
    /\ UNCHANGED <<a_args, a_pc, a_opacity>>
    /\ UNCHANGED notAlpha

\* line 374: the column is stretched to the width of the image; a column
\* with no row is rejected
A_Resize ==
    /\ a_pc = "loop"
    /\ a_y = BandH(a_args.height, a_args.fade)
    /\ a_pc' = IF a_y < 1 THEN "ValueError" ELSE "done"
    /\ UNCHANGED <<a_args, a_opacity, a_y, a_raw, a_col>>
    /\ UNCHANGED notAlpha

NextAlpha ==
    \/ A_Clamp
    \/ A_Row
    \/ A_Resize

(***************************************************************************)
(* igdb_post (getScreenshots.py).  Times are in milliseconds.              *)
(***************************************************************************)
MaxCalls == 2
MAX_RETRIES == 5
RPS_BUDGET == 4

\* line 27: 1.0 / (RPS_BUDGET - 0.5) seconds, to the millisecond
SAFETY_DELAY == (2 * 1000) \div (2 * RPS_BUDGET - 1)

\* time.time() at line 87
NowMs == 100000

\* the statuses a response can have
Statuses == {200, 204, 304, 404, 429, 500, 503}

\* raise_for_status (requests) raises for a status from 400 on
RaisesForStatus(status) == status >= 400

\* what the two reset headers give at line 83: no value, text that is no
\* number, not-a-number, or a number of milliseconds
ResetHeaders ==
    {[kind |-> "absent", v |-> 0], [kind |-> "text", v |-> 0], [kind |-> "nan", v |-> 0],
     [kind |-> "num", v |-> 0], [kind |-> "num", v |-> 3000],
     [kind |-> "num", v |-> 20000], [kind |-> "num", v |-> NowMs + 3000]}

\* max(0.5, s): a faulty variant without the upper limit
ClampSleepNoCap(s) == Max(500, s)

\* line 89
ClampSleep(s) == Max(500, Min(10000, s))

\* lines 82-94: the sleep after a 429.  Not-a-number compares false with
\* everything, so min(10, nan) is 10.
SleepFor429(header, attempt) ==
    IF header.kind = "absent" THEN 2000 * attempt
    ELSE IF header.kind = "text" THEN 2000
    ELSE IF header.kind = "nan" THEN 10000
    ELSE ClampSleep(IF header.v > NowMs THEN header.v - NowMs ELSE header.v)

\* line 101
SleepFor5xx(attempt) == 1000 * attempt

PostEvent(status) == [ev |-> "post", status |-> status, ms |-> 0]

SleepEvent(status, ms) == [ev |-> "sleep", status |-> status, ms |-> ms]

InitIgdb ==
    /\ i_pc = "loop"
    /\ i_attempt = 1
    /\ i_log = <<>>
    /\ i_calls = 1
    /\ i_run = "running"

\* getScreenshots.py is not run
IdleIgdb ==
    /\ i_pc = "idle"
    /\ i_attempt = 1
    /\ i_log = <<>>
    /\ i_calls = 0
    /\ i_run = "idle"

\* an exception leaves igdb_post; lines 158 and 175 do not catch it
IgdbRaise(kind, log) ==
    /\ i_pc' = kind
    /\ i_log' = log
    /\ i_run' = "crashed"
    /\ UNCHANGED <<i_attempt, i_calls>>
    /\ UNCHANGED notIgdb

\* the loop goes on with the next attempt
IgdbContinue(log) ==
    /\ i_pc' = "loop"
    /\ i_attempt' = i_attempt + 1
    /\ i_log' = log
    /\ UNCHANGED <<i_calls, i_run>>
    /\ UNCHANGED notIgdb

IgdbPosting == i_pc = "loop" /\ i_attempt <= MAX_RETRIES

\* lines 76-79
I_Ok ==
    /\ IgdbPosting
    /\ i_pc' = "returned"
    /\ i_log' = i_log \o <<PostEvent(200), SleepEvent(200, SAFETY_DELAY)>>
    /\ UNCHANGED <<i_attempt, i_calls, i_run>>
    /\ UNCHANGED notIgdb

\* lines 76, 81-97
I_RateLimited ==
    /\ IgdbPosting
    /\ \E header \in ResetHeaders :
          IgdbContinue(i_log \o <<PostEvent(429),
                                  SleepEvent(429, SleepFor429(header, i_attempt))>>)

\* lines 76, 99-104
I_ServerError ==
    /\ IgdbPosting
    /\ \E status \in {s \in Statuses : s >= 500} :
          IgdbContinue(i_log \o <<PostEvent(status),
                                  SleepEvent(status, SleepFor5xx(i_attempt))>>)

\* lines 76, 106-110: raise_for_status raises
I_ClientError ==
    /\ IgdbPosting
    /\ \E status \in {s \in Statuses : s # 200 /\ s # 429 /\ s < 500} :
          /\ RaisesForStatus(status)
          /\ IgdbRaise("HTTPError", Append(i_log, PostEvent(status)))

\* lines 76, 106-110: raise_for_status returns, the loop goes on
I_NotRaised ==
    /\ IgdbPosting
    /\ \E status \in {s \in Statuses : s # 200 /\ s # 429 /\ s < 500} :
          /\ ~RaisesForStatus(status)
          /\ IgdbContinue(Append(i_log, PostEvent(status)))

\* line 76: session.post raises, no response comes
I_PostRaises ==
    /\ IgdbPosting
    /\ IgdbRaise("ConnectionError", Append(i_log, [ev |-> "post", status |-> 0, ms |-> 0]))

\* line 112
I_Exhausted ==
    /\ i_pc = "loop"
    /\ i_attempt > MAX_RETRIES
    /\ IgdbRaise("RuntimeError", i_log)

\* lines 155-158, 172-175: the next batch
I_NextBatch ==
    /\ i_pc = "returned"
    /\ i_run = "running"
    /\ i_calls < MaxCalls
    /\ i_calls' = i_calls + 1
    /\ i_pc' = "loop"
    /\ i_attempt' = 1
    /\ i_log' = <<>>
    /\ UNCHANGED i_run
    /\ UNCHANGED notIgdb

\* lines 182-201: no batch is left, the results are saved
I_Finish ==
    /\ i_pc = "returned"
    /\ i_run = "running"
    /\ i_run' = "finished"
    /\ UNCHANGED <<i_pc, i_attempt, i_log, i_calls>>
    /\ UNCHANGED notIgdb

NextIgdb ==
    \/ I_Ok
    \/ I_RateLimited
    \/ I_ServerError
    \/ I_ClientError
    \/ I_NotRaised
    \/ I_PostRaises
    \/ I_Exhausted
    \/ I_NextBatch
    \/ I_Finish

(***************************************************************************)
(* getTrend.py.  A slug is <<base, suffix>>; a game of the feed is named   *)
(* by its position; times are in days.                                     *)
(***************************************************************************)
MaxRuns == 3
EXPIRY_DAYS == 7
MAX_GAMES == 50
CANDIDATE_POOL_LIMIT == 300

\* str.replace on the platform suffix of a slug
Replace(slug, what) ==
    IF slug[2] = what THEN <<slug[1], "">>
    ELSE IF what = "-switch" /\ slug[2] = "-switch-2" THEN <<slug[1], "-2">>
    ELSE slug

\* lines 12-17
clean_slug(slug, platform) ==
    IF platform = "switch" THEN Replace(Replace(slug, "-switch-2"), "-switch")
    ELSE IF platform = "ps" THEN Replace(Replace(slug, "-ps4"), "-ps5")
    ELSE slug

\* the feeds: how many games, whether two pairs of games differ in the
\* platform suffix only, whether one game has no price
Feeds ==
    {[len |-> 2, dup |-> FALSE, unpriced |-> FALSE],
     [len |-> 6, dup |-> TRUE, unpriced |-> TRUE],
     [len |-> 60, dup |-> FALSE, unpriced |-> FALSE],
     [len |-> 302, dup |-> TRUE, unpriced |-> FALSE]}

SlugSuffix(i) == IF i % 3 = 0 THEN "-ps4" ELSE IF i % 3 = 1 THEN "-switch-2" ELSE ""

\* game.get("Slug", "") of the game at position i
GameSlug(feed, i) ==
    IF feed.dup /\ i = 2 THEN <<1, "-switch">>
    ELSE IF feed.dup /\ i = 4 THEN <<3, "-ps5">>
    ELSE <<i, SlugSuffix(i)>>

\* lines 210-237: some price field of the game gives a price
GamePriced(feed, i) == ~(feed.unpriced /\ i = 5)

CleanAt(feed, platform, i) == clean_slug(GameSlug(feed, i), platform)

\* the contents of the force-include file
ForceKinds == {"missing", "invalid", "one", "beyond", "fifty", "fiftyone"}

ForceFile(kind, platform) ==
    LET first(m) == {clean_slug(<<i, SlugSuffix(i)>>, platform) : i \in 1 .. m}
    IN  IF kind = "missing" THEN [state |-> "missing", slugs |-> {}]
        ELSE IF kind = "invalid" THEN [state |-> "invalid", slugs |-> {}]
        ELSE IF kind = "one" THEN [state |-> "ok", slugs |-> first(1) \cup {<<0, "">>}]
        ELSE IF kind = "beyond"
        THEN [state |-> "ok", slugs |-> {clean_slug(<<302, SlugSuffix(302)>>, platform)}]
        ELSE IF kind = "fifty" THEN [state |-> "ok", slugs |-> first(50)]
        ELSE [state |-> "ok", slugs |-> first(51)]

\* the tracker files a first run can find
TrackerFiles(platform) ==
    LET one == {clean_slug(<<1, SlugSuffix(1)>>, platform)}
    IN  {[exists |-> FALSE, ts |-> [kind |-> "missing", t |-> 0], slugs |-> {}],
         [exists |-> TRUE, ts |-> [kind |-> "iso", t |-> 0], slugs |-> one],
         [exists |-> TRUE, ts |-> [kind |-> "date", t |-> 0], slugs |-> {}],
         [exists |-> TRUE, ts |-> [kind |-> "text", t |-> 0], slugs |-> one],
         [exists |-> TRUE, ts |-> [kind |-> "missing", t |-> 0], slugs |-> one],
         [exists |-> TRUE, ts |-> [kind |-> "aware", t |-> 0], slugs |-> one]}

\* lines 130-134: datetime.fromisoformat(ts) if ts else None, None on an
\* exception.  A date alone is read as its midnight.
FromIsoFormat(ts) ==
    IF ts.kind \in {"iso", "date", "aware"} THEN <<ts.t>> ELSE <<>>

\* line 271
IsoFormat(t) == [kind |-> "iso", t |-> t]

\* the days that pass between two runs
Advances == {1, 6}

\* line 141; a faulty variant that never expires
ExpiredNever(now, period_start) == FALSE

\* line 141
Expired(now, period_start) == now - period_start >= EXPIRY_DAYS

Positions(m) == [i \in 1 .. m |-> i]

\* lines 161-167: the games whose cleaned slug is forced, each slug once.
\* seen_force_slugs holds the slugs of the games taken so far, so a game is
\* taken when no game before it has its cleaned slug.
ForceInclude(feed, platform, force) ==
    LET taken(i) ==
            /\ CleanAt(feed, platform, i) \in force
            /\ \A j \in 1 .. i - 1 : CleanAt(feed, platform, j) # CleanAt(feed, platform, i)
        games == SelectSeq(Positions(feed.len), taken)
    IN  [games |-> games,
         seen |-> {CleanAt(feed, platform, games[j]) : j \in 1 .. Len(games)}]

\* line 188 without the tracker; a faulty variant
SkippedNoTracker(slug, seen, exported) == slug \in seen

\* line 188
Skipped(slug, seen, exported) == slug \in seen \/ slug \in exported

\* lines 184-193: the forced games, then the games of the pool that are
\* not skipped, in order.  The length is tested after each append only, so
\* the loop appends one game at least and stops with the append that brings
\* the list to MAX_GAMES or more.
BuildCandidates(feed, platform, seen, exported, forced) ==
    LET kept(i) == ~Skipped(CleanAt(feed, platform, i), seen, exported)
        pool == SelectSeq(Positions(Min(feed.len, CANDIDATE_POOL_LIMIT)), kept)
        appended == Min(Len(pool), Max(1, MAX_GAMES - Len(forced)))
    IN  forced \o SubSeq(pool, 1, appended)

\* lines 206-255: the candidates that have a price
ExportOf(feed, candidates) == SelectSeq(candidates, LAMBDA i : GamePriced(feed, i))

SlugsOf(feed, platform, positions) ==
    {CleanAt(feed, platform, positions[j]) : j \in 1 .. Len(positions)}

InitTrend ==
    /\ tr_platform \in {"ps", "switch"}
    /\ tr_use_tracker \in BOOLEAN
    /\ tr_feed \in Feeds
    /\ tr_now = 1
    /\ tr_runs = 1
    /\ tr_pc = "start"
    /\ tr_tracker \in TrackerFiles(tr_platform)
    /\ \E kind \in ForceKinds : tr_force_file = ForceFile(kind, tr_platform)
    /\ tr_output = <<>>
    /\ tr_period_start = <<>>
    /\ tr_exported_slugs = {}
    /\ tr_seen_force = {}
    /\ tr_forced = <<>>
    /\ tr_candidates = <<>>
    /\ tr_export = <<>>
    /\ tr_loaded = tr_tracker
    /\ tr_window = {}

\* getTrend.py is not run
IdleTrend ==
    /\ tr_platform = "ps"
    /\ tr_use_tracker = TRUE
    /\ tr_feed = [len |-> 0, dup |-> FALSE, unpriced |-> FALSE]
    /\ tr_now = 0
    /\ tr_runs = 0
    /\ tr_pc = "idle"
    /\ tr_tracker = [exists |-> FALSE, ts |-> [kind |-> "missing", t |-> 0], slugs |-> {}]
    /\ tr_force_file = [state |-> "missing", slugs |-> {}]
    /\ tr_output = <<>>
    /\ tr_period_start = <<>>
    /\ tr_exported_slugs = {}
    /\ tr_seen_force = {}
    /\ tr_forced = <<>>
    /\ tr_candidates = <<>>
    /\ tr_export = <<>>
    /\ tr_loaded = tr_tracker
    /\ tr_window = {}

TrendConfig == <<tr_platform, tr_use_tracker, tr_feed, tr_now, tr_runs>>

\* lines 122-144, with a period_start that can be compared with the clock
T_LoadTracker ==
    /\ tr_pc = "start"
    /\ ~(tr_use_tracker /\ tr_tracker.exists /\ tr_tracker.ts.kind = "aware")
    /\ LET found == tr_use_tracker /\ tr_tracker.exists
           slugs == IF found THEN tr_tracker.slugs ELSE {}
           parsed == IF found THEN FromIsoFormat(tr_tracker.ts) ELSE <<>>
           start == IF parsed = <<>> THEN tr_now ELSE parsed[1]
       IN  IF Expired(tr_now, start)
           THEN /\ tr_exported_slugs' = {}
                /\ tr_period_start' = <<tr_now>>
                /\ tr_window' = {}
           ELSE /\ tr_exported_slugs' = slugs
                /\ tr_period_start' = <<start>>
                /\ tr_window' = IF parsed = <<>> THEN {} ELSE tr_window
    /\ tr_loaded' = tr_tracker
    /\ tr_pc' = "tracker"
    /\ UNCHANGED <<TrendConfig, tr_tracker, tr_force_file, tr_output, tr_seen_force,
                   tr_forced, tr_candidates, tr_export>>
    /\ UNCHANGED notTrend

\* lines 125-141: the stored period_start has a UTC offset; the clock has
\* none, and the subtraction at line 141 raises TypeError
T_AwareStart ==
    /\ tr_pc = "start"
    /\ tr_use_tracker /\ tr_tracker.exists /\ tr_tracker.ts.kind = "aware"
    /\ tr_pc' = "crashed"
    /\ tr_loaded' = tr_tracker
    /\ UNCHANGED <<TrendConfig, tr_tracker, tr_force_file, tr_output, tr_period_start,
                   tr_exported_slugs, tr_seen_force, tr_forced, tr_candidates, tr_export,
                   tr_window>>
    /\ UNCHANGED notTrend

\* lines 147-181
T_ForceInclude ==
    /\ tr_pc = "tracker"
    /\ LET force == IF tr_force_file.state = "ok" THEN tr_force_file.slugs ELSE {}
           found == ForceInclude(tr_feed, tr_platform, force)
       IN  /\ tr_forced' = found.games
           /\ tr_seen_force' = found.seen
           /\ tr_force_file' = [state |-> "ok", slugs |-> force \ found.seen]
    /\ tr_pc' = "forced"
    /\ UNCHANGED <<TrendConfig, tr_tracker, tr_output, tr_period_start, tr_exported_slugs,
                   tr_candidates, tr_export, tr_loaded, tr_window>>
    /\ UNCHANGED notTrend

\* lines 184-193
T_BuildCandidates ==
    /\ tr_pc = "forced"
    /\ tr_candidates' = BuildCandidates(tr_feed, tr_platform, tr_seen_force,
                                        tr_exported_slugs, tr_forced)
    /\ tr_pc' = "candidates"
    /\ UNCHANGED <<TrendConfig, tr_tracker, tr_force_file, tr_output, tr_period_start,
                   tr_exported_slugs, tr_seen_force, tr_forced, tr_export, tr_loaded,
                   tr_window>>
    /\ UNCHANGED notTrend

\* lines 196-199: the exchange rates cannot be fetched or read; the run ends
T_NoRates ==
    /\ tr_pc = "candidates"
    /\ tr_pc' = "crashed"
    /\ UNCHANGED <<TrendConfig, tr_tracker, tr_force_file, tr_output, tr_period_start,
                   tr_exported_slugs, tr_seen_force, tr_forced, tr_candidates, tr_export,
                   tr_loaded, tr_window>>
    /\ UNCHANGED notTrend

\* lines 196-257
T_BuildExport ==
    /\ tr_pc = "candidates"
    /\ tr_export' = ExportOf(tr_feed, tr_candidates)
    /\ tr_exported_slugs' = tr_exported_slugs \cup SlugsOf(tr_feed, tr_platform, tr_export')
    /\ tr_pc' = "exported"
    /\ UNCHANGED <<TrendConfig, tr_tracker, tr_force_file, tr_output, tr_period_start,
                   tr_seen_force, tr_forced, tr_candidates, tr_loaded, tr_window>>
    /\ UNCHANGED notTrend

\* lines 260-277
T_Save ==
    /\ tr_pc = "exported"
    /\ tr_output' = [j \in 1 .. Len(tr_export) |-> CleanAt(tr_feed, tr_platform, tr_export[j])]
    /\ tr_tracker' = IF tr_use_tracker
                     THEN [exists |-> TRUE, ts |-> IsoFormat(tr_period_start[1]),
                           slugs |-> tr_exported_slugs]
                     ELSE tr_tracker
    /\ tr_window' = tr_window \cup SlugsOf(tr_feed, tr_platform, tr_export)
    /\ tr_pc' = "saved"
    /\ UNCHANGED <<TrendConfig, tr_force_file, tr_period_start, tr_exported_slugs,
                   tr_seen_force, tr_forced, tr_candidates, tr_export, tr_loaded>>
    /\ UNCHANGED notTrend

\* the next run of the script, some days later; the force-include file is
\* as the last run left it or has been filled again
T_NextRun ==
    /\ tr_pc \in {"saved", "crashed"}
    /\ tr_runs < MaxRuns
    /\ tr_runs' = tr_runs + 1
    /\ \E d \in Advances : tr_now' = tr_now + d
    /\ \E kind \in {"keep", "one", "fifty"} :
          tr_force_file' = IF kind = "keep" THEN tr_force_file
                           ELSE ForceFile(kind, tr_platform)
    /\ tr_pc' = "start"
    /\ tr_period_start' = <<>>
    /\ tr_exported_slugs' = {}
    /\ tr_seen_force' = {}
    /\ tr_forced' = <<>>
    /\ tr_candidates' = <<>>
    /\ tr_export' = <<>>
    /\ UNCHANGED <<tr_platform, tr_use_tracker, tr_feed, tr_tracker, tr_output, tr_loaded,
                   tr_window>>
    /\ UNCHANGED notTrend

NextTrend ==
    \/ T_LoadTracker
    \/ T_AwareStart
    \/ T_ForceInclude
    \/ T_BuildCandidates
    \/ T_NoRates
    \/ T_BuildExport
    \/ T_Save
    \/ T_NextRun

(***************************************************************************)
(* facebookPost.py.  A file name is <<stem, extension>>.                   *)
(***************************************************************************)
MaxComments == 2

FileNames == {<<"B", ".PNG">>, <<"a", ".jpg">>, <<"c", ".jpeg">>, <<"d", ".txt">>}

CommentTexts == {"c1", "c2"}

RECURSIVE SeqsUpTo(_, _)
SeqsUpTo(S, m) ==
    IF m = 0 THEN {<<>>}
    ELSE SeqsUpTo(S, m - 1) \cup {Append(q, e) : q \in SeqsUpTo(S, m - 1), e \in S}

\* the code point of the first character of a name
CodePoint(name) ==
    IF name[1] = "B" THEN 66 ELSE IF name[1] = "a" THEN 97
    ELSE IF name[1] = "c" THEN 99 ELSE 100

RECURSIVE SortedNames(_)
\* line 51: sorted(os.listdir(IMAGE_FOLDER))
SortedNames(names) ==
    IF names = {} THEN <<>>
    ELSE LET least == CHOOSE f \in names : \A g \in names : CodePoint(f) <= CodePoint(g)
         IN  <<least>> \o SortedNames(names \ {least})

\* str.lower on an extension
LowerExt(ext) == IF ext = ".PNG" THEN ".png" ELSE ext

\* line 52
IsImageFile(name) == LowerExt(name[2]) \in {".jpg", ".jpeg", ".png"}

\* lines 49-53
ImageFiles(folder) == SelectSeq(SortedNames(folder), IsImageFile)

UploadEvent(name, ok) == [ev |-> "upload", arg |-> name, ok |-> ok]

FeedEvent(media, ok) == [ev |-> "feed", arg |-> media, ok |-> ok]

CommentEvent(text, ok) == [ev |-> "comment", arg |-> <<text>>, ok |-> ok]

\* the id the server gives to the upload of a file
MediaId(name) == <<"id", name>>

InitFb ==
    /\ fb_folder \in SUBSET FileNames
    /\ fb_comments \in SeqsUpTo(CommentTexts, MaxComments)
    /\ fb_pc = "start"
    /\ fb_files = <<>>
    /\ fb_i = 0
    /\ fb_uploaded = <<>>
    /\ fb_log = <<>>

\* facebookPost.py is not run
IdleFb ==
    /\ fb_folder = {}
    /\ fb_comments = <<>>
    /\ fb_pc = "idle"
    /\ fb_files = <<>>
    /\ fb_i = 0
    /\ fb_uploaded = <<>>
    /\ fb_log = <<>>

FbGoto(next_pc) ==
    /\ fb_pc' = next_pc
    /\ UNCHANGED <<fb_folder, fb_comments>>
    /\ UNCHANGED notFb

\* lines 49-60: the image files of the folder
F_ListFiles ==
    /\ fb_pc = "start"
    /\ fb_files' = ImageFiles(fb_folder)
    /\ FbGoto(IF fb_files' = <<>> THEN "exit" ELSE "upload")
    /\ UNCHANGED <<fb_i, fb_uploaded, fb_log>>

\* lines 65-84: one upload, answered with an id or without one
F_Upload ==
    /\ fb_pc = "upload"
    /\ fb_i < Len(fb_files)
    /\ \E ok \in BOOLEAN :
          /\ fb_log' = Append(fb_log, UploadEvent(fb_files[fb_i + 1], ok))
          /\ fb_uploaded' = IF ok
                            THEN Append(fb_uploaded,
                                        [media_fbid |-> MediaId(fb_files[fb_i + 1])])
                            ELSE fb_uploaded
    /\ fb_i' = fb_i + 1
    /\ FbGoto("upload")
    /\ UNCHANGED fb_files

\* lines 67-78: the request or response.json() raises; nothing catches it
F_UploadRaises ==
    /\ fb_pc = "upload"
    /\ fb_i < Len(fb_files)
    /\ fb_log' = Append(fb_log, [ev |-> "upload", arg |-> fb_files[fb_i + 1], ok |-> FALSE])
    /\ FbGoto("crashed")
    /\ UNCHANGED <<fb_files, fb_i, fb_uploaded>>

\* lines 87-89
F_NoneUploaded ==
    /\ fb_pc = "upload"
    /\ fb_i = Len(fb_files)
    /\ fb_uploaded = <<>>
    /\ FbGoto("exit")
    /\ UNCHANGED <<fb_files, fb_i, fb_uploaded, fb_log>>

\* lines 91-129: the feed post, answered with an id or without one
F_PostFeed ==
    /\ fb_pc = "upload"
    /\ fb_i = Len(fb_files)
    /\ fb_uploaded # <<>>
    /\ \E ok \in BOOLEAN :
          /\ fb_log' = Append(fb_log, FeedEvent(fb_uploaded, ok))
          /\ FbGoto(IF ok THEN "comments" ELSE "done")
    /\ fb_i' = 0
    /\ UNCHANGED <<fb_files, fb_uploaded>>

\* lines 104-105: the request or response.json() raises
F_PostFeedRaises ==
    /\ fb_pc = "upload"
    /\ fb_i = Len(fb_files)
    /\ fb_uploaded # <<>>
    /\ fb_log' = Append(fb_log, FeedEvent(fb_uploaded, FALSE))
    /\ FbGoto("crashed")
    /\ UNCHANGED <<fb_files, fb_i, fb_uploaded>>

\* lines 112-126: one comment, answered with an id or without one
F_Comment ==
    /\ fb_pc = "comments"
    /\ fb_i < Len(fb_comments)
    /\ \E ok \in BOOLEAN :
          fb_log' = Append(fb_log, CommentEvent(fb_comments[fb_i + 1], ok))
    /\ fb_i' = fb_i + 1
    /\ FbGoto("comments")
    /\ UNCHANGED <<fb_files, fb_uploaded>>

\* lines 119-120: the request or response.json() raises
F_CommentRaises ==
    /\ fb_pc = "comments"
    /\ fb_i < Len(fb_comments)
    /\ fb_log' = Append(fb_log, CommentEvent(fb_comments[fb_i + 1], FALSE))
    /\ FbGoto("crashed")
    /\ UNCHANGED <<fb_files, fb_i, fb_uploaded>>

\* line 112: no comment is left
F_Done ==
    /\ fb_pc = "comments"
    /\ fb_i = Len(fb_comments)
    /\ FbGoto("done")
    /\ UNCHANGED <<fb_files, fb_i, fb_uploaded, fb_log>>

NextFb ==
    \/ F_ListFiles
    \/ F_Upload
    \/ F_UploadRaises
    \/ F_NoneUploaded
    \/ F_PostFeed
    \/ F_PostFeedRaises
    \/ F_Comment
    \/ F_CommentRaises
    \/ F_Done

(***************************************************************************)
(* main and pick_entries_sorted_by_score_pop_year (onThisDay.py).          *)
(***************************************************************************)
MaxEntries == 2
MIN_SCREENSHOTS == 5

\* safe_float of SCORE and of Popularity: -1 stands for a missing or
\* unreadable value
ScoreValues == {0 - 1, 10, 90}

PopularityValues == {0 - 1, 1, 5}

\* an entry of the day: its order in the source, SCORE, Popularity, whether
\* its release year is the PH year, whether it has a slug, whether IGDB
\* knows it, and how many screenshot URLs IGDB gives
EntriesAt(id) ==
    [id : {id}, score : ScoreValues, pop : PopularityValues, year_match : {0, 1},
     slug_ok : BOOLEAN, igdb : BOOLEAN, shots : {MIN_SCREENSHOTS - 1, MIN_SCREENSHOTS}]

RECURSIVE EntryLists(_)
EntryLists(m) ==
    IF m = 0 THEN {<<>>}
    ELSE {Append(q, e) : q \in EntryLists(m - 1), e \in EntriesAt(m)}

\* lines 138-143, with SCORE before Popularity; a variant of the key
KeyScoreFirst(e) == <<e.score, e.pop, e.year_match>>

\* lines 138-143: (pop, score, year_match)
Key(e) == <<e.pop, e.score, e.year_match>>

\* the order of tuples of three numbers
TupleLess(a, b) ==
    \/ a[1] < b[1]
    \/ a[1] = b[1] /\ a[2] < b[2]
    \/ a[1] = b[1] /\ a[2] = b[2] /\ a[3] < b[3]

RECURSIVE InsertDesc(_, _)
\* e is put behind every entry whose key is not smaller than its own
InsertDesc(sorted, e) ==
    IF sorted = <<>> THEN <<e>>
    ELSE IF TupleLess(Key(Head(sorted)), Key(e)) THEN <<e>> \o sorted
    ELSE <<Head(sorted)>> \o InsertDesc(Tail(sorted), e)

RECURSIVE SortedDesc(_)
\* line 144: sorted(entries, key=key, reverse=True), which keeps the source
\* order of entries with equal keys
SortedDesc(entries) ==
    IF entries = <<>> THEN <<>>
    ELSE InsertDesc(SortedDesc(SubSeq(entries, 1, Len(entries) - 1)),
                    entries[Len(entries)])

\* line 137
pick_entries_sorted_by_score_pop_year(entries) == SortedDesc(entries)

\* lines 588-606: why main passes over a candidate, "" when it takes it
SkipReason(e) ==
    IF ~e.slug_ok THEN "no slug"
    ELSE IF ~e.igdb THEN "no match"
    ELSE IF e.shots < MIN_SCREENSHOTS THEN "few screenshots"
    ELSE ""

InitPick ==
    /\ d_todays \in EntryLists(1) \cup EntryLists(MaxEntries)
    /\ d_pc = "sort"
    /\ d_candidates = <<>>
    /\ d_idx = 0
    /\ d_chosen = <<>>

\* main is not run
IdlePick ==
    /\ d_todays = <<>>
    /\ d_pc = "idle"
    /\ d_candidates = <<>>
    /\ d_idx = 0
    /\ d_chosen = <<>>

\* lines 580-584
D_Sort ==
    /\ d_pc = "sort"
    /\ d_candidates' = pick_entries_sorted_by_score_pop_year(d_todays)
    /\ d_pc' = "loop"
    /\ UNCHANGED <<d_todays, d_idx, d_chosen>>
    /\ UNCHANGED notPick

\* lines 587-606: the candidate is passed over
D_Skip ==
    /\ d_pc = "loop"
    /\ d_idx < Len(d_candidates)
    /\ SkipReason(d_candidates[d_idx + 1]) # ""
    /\ d_idx' = d_idx + 1
    /\ UNCHANGED <<d_todays, d_pc, d_candidates, d_chosen>>
    /\ UNCHANGED notPick

\* lines 587-610: the candidate is selected
D_Select ==
    /\ d_pc = "loop"
    /\ d_idx < Len(d_candidates)
    /\ SkipReason(d_candidates[d_idx + 1]) = ""
    /\ d_chosen' = <<d_candidates[d_idx + 1]>>
    /\ d_idx' = d_idx + 1
    /\ d_pc' = "chosen"
    /\ UNCHANGED <<d_todays, d_candidates>>
    /\ UNCHANGED notPick

\* lines 160-161, 188-189: a query of a candidate with a slug is refused
\* and raise_for_status ends main
D_QueryRaises ==
    /\ d_pc = "loop"
    /\ d_idx < Len(d_candidates)
    /\ d_candidates[d_idx + 1].slug_ok
    /\ d_idx' = d_idx + 1
    /\ d_pc' = "crashed"
    /\ UNCHANGED <<d_todays, d_candidates, d_chosen>>
    /\ UNCHANGED notPick

\* lines 612-614
D_NoneFound ==
    /\ d_pc = "loop"
    /\ d_idx = Len(d_candidates)
    /\ d_pc' = "none"
    /\ UNCHANGED <<d_todays, d_candidates, d_idx, d_chosen>>
    /\ UNCHANGED notPick

NextPick ==
    \/ D_Sort
    \/ D_Skip
    \/ D_Select
    \/ D_QueryRaises
    \/ D_NoneFound

(***************************************************************************)
(* The specifications: one call of a function or one run of a script,     *)
(* with everything else idle.                                              *)
(***************************************************************************)
Init == InitCollage /\ IdleFit /\ IdleGrid /\ IdleTitle /\ IdleSale /\ IdleFont /\ IdleBand /\ IdleOverlay /\ IdleAlpha /\ IdleIgdb /\ IdleTrend /\ IdleFb /\ IdlePick

Next == NextCollage

Spec == Init /\ [][Next]_vars

InitSpecFit == IdleCollage /\ InitFit /\ IdleGrid /\ IdleTitle /\ IdleSale /\ IdleFont /\ IdleBand /\ IdleOverlay /\ IdleAlpha /\ IdleIgdb /\ IdleTrend /\ IdleFb /\ IdlePick

SpecFit == InitSpecFit /\ [][NextFit]_vars

InitSpec1242 == IdleCollage /\ IdleFit /\ InitGrid /\ IdleTitle /\ IdleSale /\ IdleFont /\ IdleBand /\ IdleOverlay /\ IdleAlpha /\ IdleIgdb /\ IdleTrend /\ IdleFb /\ IdlePick

Spec1242 == InitSpec1242 /\ [][NextGrid]_vars

InitSpecWrap == IdleCollage /\ IdleFit /\ IdleGrid /\ InitWrap /\ IdleSale /\ IdleFont /\ IdleBand /\ IdleOverlay /\ IdleAlpha /\ IdleIgdb /\ IdleTrend /\ IdleFb /\ IdlePick

SpecWrap == InitSpecWrap /\ [][NextWrap]_vars

InitSpecTitle == IdleCollage /\ IdleFit /\ IdleGrid /\ InitTitle /\ IdleSale /\ IdleFont /\ IdleBand /\ IdleOverlay /\ IdleAlpha /\ IdleIgdb /\ IdleTrend /\ IdleFb /\ IdlePick

SpecTitle == InitSpecTitle /\ [][NextTitle]_vars

InitSpecSale == IdleCollage /\ IdleFit /\ IdleGrid /\ IdleTitle /\ InitSale /\ IdleFont /\ IdleBand /\ IdleOverlay /\ IdleAlpha /\ IdleIgdb /\ IdleTrend /\ IdleFb /\ IdlePick

InitSpecFont == IdleCollage /\ IdleFit /\ IdleGrid /\ IdleTitle /\ IdleSale /\ InitFont /\ IdleBand /\ IdleOverlay /\ IdleAlpha /\ IdleIgdb /\ IdleTrend /\ IdleFb /\ IdlePick

SpecFont == InitSpecFont /\ [][NextFont]_vars

InitSpecBand ==
    /\ IdleCollage /\ IdleFit /\ IdleGrid /\ IdleTitle /\ IdleSale /\ IdleFont /\ InitBand
    /\ IdleOverlay
    /\ IdleAlpha
    /\ IdleIgdb
    /\ IdleTrend
    /\ IdleFb
    /\ IdlePick

SpecBand == InitSpecBand /\ [][NextBand]_vars

InitSpecOverlay ==
    /\ IdleCollage /\ IdleFit /\ IdleGrid /\ IdleTitle /\ IdleSale /\ IdleFont /\ IdleBand
    /\ InitOverlay
    /\ IdleAlpha
    /\ IdleIgdb
    /\ IdleTrend
    /\ IdleFb
    /\ IdlePick

SpecOverlay == InitSpecOverlay /\ [][NextOverlay]_vars

InitSpecOverlayLive ==
    /\ IdleCollage /\ IdleFit /\ IdleGrid /\ IdleTitle /\ IdleSale /\ IdleFont /\ IdleBand
    /\ InitOverlayShort
    /\ IdleAlpha
    /\ IdleIgdb
    /\ IdleTrend
    /\ IdleFb
    /\ IdlePick

\* the function runs on: no step of it waits for anything
SpecOverlayLive == InitSpecOverlayLive /\ [][NextOverlay]_vars /\ WF_vars(NextOverlay)

SpecSale == InitSpecSale /\ [][NextSale]_vars

InitSpecPick ==
    /\ IdleCollage /\ IdleFit /\ IdleGrid /\ IdleTitle /\ IdleSale /\ IdleFont /\ IdleBand
    /\ IdleOverlay /\ IdleAlpha /\ IdleIgdb /\ IdleTrend /\ IdleFb /\ InitPick

SpecPick == InitSpecPick /\ [][NextPick]_vars

InitSpecFb ==
    /\ IdleCollage /\ IdleFit /\ IdleGrid /\ IdleTitle /\ IdleSale /\ IdleFont /\ IdleBand
    /\ IdleOverlay /\ IdleAlpha /\ IdleIgdb /\ IdleTrend /\ InitFb
    /\ IdlePick

SpecFb == InitSpecFb /\ [][NextFb]_vars

InitSpecTrend ==
    /\ IdleCollage /\ IdleFit /\ IdleGrid /\ IdleTitle /\ IdleSale /\ IdleFont /\ IdleBand
    /\ IdleOverlay /\ IdleAlpha /\ IdleIgdb /\ InitTrend
    /\ IdleFb
    /\ IdlePick

SpecTrend == InitSpecTrend /\ [][NextTrend]_vars

InitSpecIgdb ==
    /\ IdleCollage /\ IdleFit /\ IdleGrid /\ IdleTitle /\ IdleSale /\ IdleFont /\ IdleBand
    /\ IdleOverlay /\ IdleAlpha /\ InitIgdb
    /\ IdleTrend
    /\ IdleFb
    /\ IdlePick

SpecIgdb == InitSpecIgdb /\ [][NextIgdb]_vars

InitSpecAlpha ==
    /\ IdleCollage /\ IdleFit /\ IdleGrid /\ IdleTitle /\ IdleSale /\ IdleFont /\ IdleBand
    /\ IdleOverlay /\ InitAlpha
    /\ IdleIgdb
    /\ IdleTrend
    /\ IdleFb
    /\ IdlePick

SpecAlpha == InitSpecAlpha /\ [][NextAlpha]_vars

(***************************************************************************)
(* Properties of make_collage.                                             *)
(***************************************************************************)
\* the first pass has run to its end
PlanDone == pc \in {"paste", "done"} \/ (pc = "plan" /\ r = row_count)

\* C1: for a non-empty URL list of length n and any cols (below 1 counted as
\* 1) the row plan has exactly ceil(n / cols) rows, that is the one q with
\* (q - 1) * cols < n <= q * cols, and the rows' item counts sum to n.
C1_RowCountAndSum ==
    PlanDone =>
        LET c == Max(args.cols, 1)
            len == Len(args.urls)
            q == Len(rows_meta)
        IN  /\ (q - 1) * c < len
            /\ len <= q * c
            /\ SumItems(rows_meta) = len

\* a plan of several rows whose last row is partial
C1_Witness ==
    /\ PlanDone
    /\ Len(args.urls) = 5
    /\ args.cols = 2
    /\ Len(rows_meta) = 3

\* C2: every row of the plan but the last holds exactly cols items and the
\* last holds between 1 and cols items.
C2_OnlyLastRowPartial ==
    PlanDone =>
        /\ \A j \in 1 .. Len(rows_meta) - 1 : rows_meta[j].items = cols
        /\ rows_meta # <<>>
        /\ rows_meta[Len(rows_meta)].items \in 1 .. cols

\* two full rows followed by a partial one
C2_Witness ==
    /\ PlanDone
    /\ cols = 3
    /\ Len(rows_meta) = 3
    /\ rows_meta[3].items = 2

\* C3: a partial last row of one item is canvas_w - 2*margin wide and starts
\* at margin; a partial last row of k items, 1 < k < cols, has cell width
\* (canvas_w - 2*margin - (k-1)*gutter) // k and is centred at
\* (canvas_w - row_w) // 2; a full row has cell width
\* (canvas_w - 2*margin - (cols-1)*gutter) // cols and starts at margin.
C3_RowGeometry ==
    \A j \in 1 .. Len(rows_meta) :
        LET row == rows_meta[j]
            usable == args.canvas_w - 2 * args.margin
        IN  /\ row.items = cols =>
                /\ row.cell_w = (usable - (cols - 1) * args.gutter) \div cols
                /\ row.x_start = args.margin
            /\ (row.items # cols /\ row.items = 1) =>
                /\ row.cell_w = usable
                /\ row.x_start = args.margin
            /\ (row.items # cols /\ row.items > 1) =>
                /\ row.cell_w = (usable - (row.items - 1) * args.gutter) \div row.items
                /\ row.x_start =
                     (args.canvas_w
                        - (row.items * row.cell_w + (row.items - 1) * args.gutter)) \div 2

\* a plan with a centred partial row that does not start at the margin
C3_Witness ==
    /\ PlanDone
    /\ rows_meta # <<>>
    /\ LET row == rows_meta[Len(rows_meta)]
       IN  /\ row.items > 1
           /\ row.items < cols
           /\ row.x_start > args.margin
           /\ row.cell_w > 0

\* C4: an empty URL list raises before any download, canvas or file-system
\* effect; a non-empty list never raises, and with cols < 1 the plan is the
\* plan of cols = 1: one full-width item per row, and n tiles are pasted.
C4_EmptyRaisesColsClamped ==
    /\ args.urls = <<>> =>
        /\ pc \in {"start", "raised"}
        /\ pc = "start" => (ENABLED RaiseNoImages /\ ~ENABLED Start)
        /\ pc = "raised" => result = "ValueError"
        /\ downloads = 0 /\ canvas = None /\ fs = {} /\ tiles = <<>>
    /\ args.urls # <<>> => pc # "raised"
    /\ (args.cols < 1 /\ PlanDone) =>
        /\ Len(rows_meta) = Len(args.urls)
        /\ \A j \in 1 .. Len(rows_meta) :
             /\ rows_meta[j].items = 1
             /\ rows_meta[j].cell_w = args.canvas_w - 2 * args.margin
             /\ rows_meta[j].x_start = args.margin
        /\ \A i \in 1 .. Len(tiles) :
             /\ tiles[i].x = args.margin
             /\ tiles[i].w = args.canvas_w - 2 * args.margin
        /\ pc = "done" => Len(tiles) = Len(args.urls)

\* a finished run that was called with cols = 0
C4_Witness ==
    /\ args.cols < 1
    /\ pc = "done"
    /\ Len(tiles) = 3

\* the empty list has raised
C4_WitnessEmpty == pc = "raised" /\ args.urls = <<>>

\* y of the top edge of row j when rows are stacked from margin
RowTop(j) == args.margin + SumH(SubSeq(rows_meta, 1, j - 1)) + (j - 1) * args.gutter

\* C5: the canvas is sum of row heights + (rows-1)*gutter + 2*margin high;
\* the first row is pasted at y = margin, each next row at the previous
\* row's y + cell_h + gutter, and the last row ends at canvas height - margin.
C5_CanvasHeightAndStacking ==
    canvas # None =>
        /\ canvas[1] = args.canvas_w
        /\ canvas[2] = SumH(rows_meta) + (Len(rows_meta) - 1) * args.gutter
                         + 2 * args.margin
        /\ \A i \in 1 .. Len(tiles) : tiles[i].y = RowTop(tiles[i].row)
        /\ \A i \in 1 .. Len(tiles) - 1 :
             \/ tiles[i + 1].row = tiles[i].row /\ tiles[i + 1].y = tiles[i].y
             \/ /\ tiles[i + 1].row = tiles[i].row + 1
                /\ tiles[i + 1].y = tiles[i].y + tiles[i].h + args.gutter
        /\ tiles # <<>> => tiles[1].y = args.margin
        /\ pc = "done" =>
             tiles[Len(tiles)].y + tiles[Len(tiles)].h = canvas[2] - args.margin

\* a finished collage of three rows with a gutter and a margin
C5_Witness ==
    /\ pc = "done"
    /\ Len(rows_meta) = 3
    /\ args.gutter > 0
    /\ args.margin > 0
    /\ args.canvas_w = DefaultCanvasW

\* C6: for n >= 1, cols >= 1, canvas_w >= 1, margin >= 0 and gutter >= 0
\* every placed tile has positive width and height and ends at or before
\* the right edge of the canvas.
C6_TilesPositiveInsideCanvas ==
    (/\ Len(args.urls) >= 1 /\ args.cols >= 1 /\ args.canvas_w >= 1
     /\ args.margin >= 0 /\ args.gutter >= 0) =>
        \A i \in 1 .. Len(tiles) :
            /\ tiles[i].w > 0
            /\ tiles[i].h > 0
            /\ tiles[i].x + tiles[i].w <= args.canvas_w

\* the plan of the docstring's geometry
DocstringCall ==
    /\ args.canvas_w = DefaultCanvasW
    /\ args.cols = 2
    /\ args.aspect_ratio = <<16, 9>>
    /\ args.margin = 0
    /\ args.gutter = 0

RowItems == [j \in 1 .. Len(rows_meta) |-> rows_meta[j].items]

RowHeights == [j \in 1 .. Len(rows_meta) |-> rows_meta[j].cell_h]

\* C7: with canvas_w 1820, cols 2, 16:9, no margin and no gutter, 5 images
\* give rows [2,2,1] of heights [512,512,1024] with a last item 1820 wide,
\* 3 images rows [2,1] of heights [512,1024], 8 images four rows of 2 of
\* height 512.
C7_DocstringExamples ==
    (DocstringCall /\ PlanDone) =>
        /\ Len(args.urls) = 5 =>
             /\ RowItems = <<2, 2, 1>>
             /\ RowHeights = <<512, 512, 1024>>
             /\ rows_meta[3].cell_w = 1820
        /\ Len(args.urls) = 3 =>
             /\ RowItems = <<2, 1>>
             /\ RowHeights = <<512, 1024>>
        /\ Len(args.urls) = 8 =>
             /\ RowItems = <<2, 2, 2, 2>>
             /\ RowHeights = <<512, 512, 512, 512>>

\* the eight-image example has been planned and pasted
C7_Witness ==
    /\ DocstringCall
    /\ pc = "done"
    /\ Len(args.urls) = 8
    /\ Len(tiles) = 8

C8_CoverFillsTarget ==
    (f_pc \in {"resized", "returned"} /\ f_mode = "cover" /\ f_img # None) =>
        /\ f_new[1] >= f_target[1]
        /\ f_new[2] >= f_target[2]
        /\ f_new[1] = f_target[1] \/ f_new[2] = f_target[2]
        /\ f_pc = "returned" =>
             /\ f_box[1] >= 0
             /\ f_box[2] >= 0
             /\ f_box[3] <= f_new[1]
             /\ f_box[4] <= f_new[2]
             /\ f_box[3] - f_box[1] = f_target[1]
             /\ f_box[4] - f_box[2] = f_target[2]
             /\ f_out = f_target

\* a source narrower than its target, scaled by width and cropped in height
C8_Witness ==
    /\ f_pc = "returned"
    /\ f_fn = "_center_crop_cover"
    /\ f_img # None
    /\ f_img[1] * f_target[2] < f_target[1] * f_img[2]
    /\ f_new[2] > f_target[2]
    /\ f_box[2] > 0

\* a source wider than its target, scaled by height and cropped in width
C8_WitnessWider ==
    /\ f_pc = "returned"
    /\ f_fn = "_resize_into_cell"
    /\ f_mode = "cover"
    /\ f_img = <<1920, 1080>>
    /\ f_target = <<CELL_W, CELL_H>>
    /\ f_box[1] > 0

(***************************************************************************)
(* Properties of make_collage_1242.                                        *)
(***************************************************************************)
\* C10: for every non-empty URL list, one URL included, a failed download
\* never aborts make_collage_1242: the call does not raise, and when it is
\* done one tile per URL is pasted and the collage is saved.
C10_FetchFailureNeverAborts ==
    FilterUrls(g_args.urls) # <<>> =>
        /\ g_pc # "raised"
        /\ g_pc = "done" => "save" \in g_fs

\* C11: in the grid of make_collage_1242 with n >= 2 and n mod cols = 1,
\* every tile but the last is cell_w x cell_h; the last is
\* canvas_w - 2*margin wide and 2*cell_h high, pasted at x = margin right
\* below the full rows; the canvas is
\* 2*margin + (n // cols)*(cell_h + gutter) + 2*cell_h high, so that tile
\* ends at canvas height - margin.
C11_LastWideTile ==
    (g_pc \in {"paste", "save", "done"} /\ g_n >= 2 /\ g_n % g_args.cols = 1) =>
        LET cell_w == g_args.cell[1]
            cell_h == g_args.cell[2]
            full == g_n \div g_args.cols
        IN  /\ g_canvas[2] = 2 * g_args.margin + full * (cell_h + g_args.gutter)
                               + 2 * cell_h
            /\ \A i \in 1 .. Len(g_tiles) :
                 IF i < g_n
                 THEN g_tiles[i].w = cell_w /\ g_tiles[i].h = cell_h
                 ELSE /\ g_tiles[i].w = g_args.canvas_w - 2 * g_args.margin
                      /\ g_tiles[i].h = 2 * cell_h
                      /\ g_tiles[i].x = g_args.margin
                      /\ g_tiles[i].y = g_args.margin + full * (cell_h + g_args.gutter)
                      /\ g_tiles[i].y + g_tiles[i].h = g_canvas[2] - g_args.margin
            /\ g_pc = "done" => Len(g_tiles) = g_n

\* five URLs in two columns with a gutter: two full rows and the wide tile
C11_Witness ==
    /\ g_pc = "done"
    /\ g_n = 5
    /\ g_args.cols = 2
    /\ g_args.gutter > 0
    /\ g_args.margin > 0
    /\ Len(g_tiles) = 5
    /\ g_tiles[5].h = 2 * g_args.cell[2]


(***************************************************************************)
(* Properties of best_two_line_wrap.                                       *)
(***************************************************************************)
WrapReturned == t_fn = "best_two_line_wrap" /\ t_pc = "returned"

\* the words of the title, and its two lines when broken after word b
TitleWords == SplitWords(t_title)

Line1At(b) == Join(SubSeq(TitleWords, 1, b))

Line2At(b) == Join(SubSeq(TitleWords, b + 1, Len(TitleWords)))

W1At(b) == TextWidth(Line1At(b), t_size, t_spacing)

W2At(b) == TextWidth(Line2At(b), t_size, t_spacing)

FitsAt(b) == W1At(b) <= t_max_width /\ W2At(b) <= t_max_width

Breaks == 1 .. (Len(TitleWords) - 1)

\* a break that leaves a single word on one of the lines
IsOrphanAt(b) == b < 2 \/ Len(TitleWords) - b < 2

ImbalanceAt(b) == Abs(W1At(b) - W2At(b))

\* the imbalance of the pair of lines that was returned
ReturnedImbalance ==
    Abs(TextWidth(t_lines[1], t_size, t_spacing) - TextWidth(t_lines[2], t_size, t_spacing))

\* C12: best_two_line_wrap returns None or the two lines of one break of the
\* title's words, both at most max_width wide; it returns None only for a
\* title of fewer than two words or when no break fits.
C12_WrapIsFittingSplit ==
    WrapReturned =>
        /\ t_lines # None =>
              \E b \in Breaks :
                  /\ t_lines = <<Line1At(b), Line2At(b)>>
                  /\ W1At(b) <= t_max_width
                  /\ W2At(b) <= t_max_width
        /\ t_lines = None =>
              (Len(TitleWords) < 2 \/ \A b \in Breaks : ~FitsAt(b))

\* a title of four words where only some of the breaks fit, and one is returned
C12_Witness ==
    /\ WrapReturned
    /\ Len(TitleWords) = 4
    /\ t_lines # None
    /\ \E b \in Breaks : ~FitsAt(b)
    /\ \E b \in Breaks : W1At(b) <= t_max_width /\ W2At(b) > t_max_width

\* C13 as stated: whenever a fitting break leaves two words or more on both
\* lines, the returned pair is strictly better balanced than every fitting
\* break that leaves a single word on a line.
C13_BelowEveryOrphan ==
    (WrapReturned /\ \E b \in Breaks : FitsAt(b) /\ ~IsOrphanAt(b)) =>
        \A o \in Breaks : (FitsAt(o) /\ IsOrphanAt(o)) => ReturnedImbalance < ImbalanceAt(o)

\* the score of line 106 for the break after word b
ScoreAt(b) ==
    (ImbalanceAt(b) * 1000) + (W1At(b) + W2At(b)) + (IF IsOrphanAt(b) THEN 3000 ELSE 0)

\* C13, amended: the returned pair is the first fitting break of least score
\* |w1-w2|*1000 + (w1+w2) + 3000 for a single-word line; so its imbalance is
\* at most 3 above that of any fitting break, single-word breaks included,
\* and not necessarily below it.
C13_LeastScore ==
    (WrapReturned /\ t_lines # None) =>
        \E b \in Breaks :
            /\ FitsAt(b)
            /\ t_lines = <<Line1At(b), Line2At(b)>>
            /\ \A o \in Breaks : FitsAt(o) =>
                  /\ ScoreAt(b) <= ScoreAt(o)
                  /\ (o < b => ScoreAt(b) < ScoreAt(o))
                  /\ ReturnedImbalance <= ImbalanceAt(o) + 3

\* two words on both lines are returned although a fitting single-word break
\* is better balanced
C13_Witness ==
    /\ WrapReturned
    /\ t_lines # None
    /\ \E b \in Breaks : ~IsOrphanAt(b) /\ t_lines = <<Line1At(b), Line2At(b)>>
    /\ \E o \in Breaks : FitsAt(o) /\ IsOrphanAt(o) /\ ImbalanceAt(o) < ReturnedImbalance


(***************************************************************************)
(* Properties of fit_title_to_two_lines.                                   *)
(***************************************************************************)
FitDone == t_fn = "fit_title_to_two_lines" /\ t_pc \in {"returned", "fallback"}

LineWidth(line, s) == TextWidth(line, s, t_spacing)

\* words a+1 .. b of the title, joined
WordsJoined(a, b) == Join(SubSeq(TitleWords, a + 1, b))

\* at size s the whole title fits on one line, or some break fits
SizeFits(s) ==
    \/ LineWidth(t_title, s) <= t_max_width
    \/ \E b \in Breaks :
          /\ LineWidth(Line1At(b), s) <= t_max_width
          /\ LineWidth(Line2At(b), s) <= t_max_width

WithEllipsis(line) == line \o <<" ", Ellipsis>>

\* the second line of the forced fit, the first line holding i words: the
\* longest run of the next words that fits with its ellipsis, cut there
IsTruncatedRemainder(line, i) ==
    LET nw == Len(TitleWords)
    IN  \E j \in 0 .. (nw - i) :
            /\ \A m \in 1 .. j :
                  LineWidth(WithEllipsis(WordsJoined(i, i + m)), t_min) <= t_max_width
            /\ j < nw - i =>
                  LineWidth(WithEllipsis(WordsJoined(i, i + j + 1)), t_min) > t_max_width
            /\ line = IF j = nw - i THEN WordsJoined(i, nw)
                      ELSE IF j = 0 THEN WithEllipsis(TitleWords[i + 1])
                      ELSE WithEllipsis(WordsJoined(i, i + j))

\* the lines of the forced fit at min_size
IsForcedFit ==
    LET nw == Len(TitleWords)
    IN  \E i \in 0 .. nw :
            /\ t_lines[1] = WordsJoined(0, i)
            /\ \A m \in 0 .. i : LineWidth(WordsJoined(0, m), t_min) <= t_max_width
            /\ i < nw => LineWidth(WordsJoined(0, i + 1), t_min) > t_max_width
            /\ IF i = nw THEN Len(t_lines) = 1
               ELSE Len(t_lines) = 2 /\ IsTruncatedRemainder(t_lines[2], i)

\* C16: fit_title_to_two_lines returns one or two lines; it returns at the
\* largest size of min_size .. initial_size at which the title fits on one
\* line or a break fits, and then every line fits max_width; only when no
\* size fits it returns the forced fit at min_size: a greedy first line that
\* fits and the remainder cut with an ellipsis.
C16_LargestFittingSizeOrForcedFit ==
    FitDone =>
        /\ Len(t_lines) \in {1, 2}
        /\ IF \E s \in t_min .. t_initial : SizeFits(s)
           THEN /\ t_pc = "returned"
                /\ SizeFits(t_font)
                /\ t_font \in t_min .. t_initial
                /\ \A s \in (t_font + 1) .. t_initial : ~SizeFits(s)
                /\ \A l \in 1 .. Len(t_lines) : LineWidth(t_lines[l], t_font) <= t_max_width
                /\ \/ t_lines = <<t_title>>
                   \/ \E b \in Breaks : t_lines = <<Line1At(b), Line2At(b)>>
           ELSE /\ t_pc = "fallback"
                /\ t_font = t_min
                /\ IsForcedFit

\* no size of a range of two fits; the first line takes one word of three and
\* the second line is the next word with its ellipsis
C16_Witness ==
    /\ FitDone
    /\ t_pc = "fallback"
    /\ t_initial > t_min
    /\ Len(TitleWords) = 3
    /\ Len(t_lines) = 2
    /\ t_lines[1] = TitleWords[1]
    /\ t_lines[2] = WithEllipsis(TitleWords[2])

\* a smaller size is taken because the initial size does not fit
C16_WitnessShrunk ==
    /\ FitDone
    /\ t_pc = "returned"
    /\ t_font < t_initial
    /\ Len(t_lines) = 2


(***************************************************************************)
(* Properties of the sale-info word wrap.                                  *)
(***************************************************************************)
WordWidth(wc) == TextWidth(wc.word, s_size, s_spacing)

RECURSIVE SumWordWidths(_)
SumWordWidths(line) ==
    IF line = <<>> THEN 0 ELSE WordWidth(Head(line)) + SumWordWidths(Tail(line))

\* the width of a wrapped line: its words and one space between neighbours
WrappedWidth(line) ==
    SumWordWidths(line) + (IF line = <<>> THEN 0 ELSE (Len(line) - 1) * SpaceWidth(s_size))

RECURSIVE Flatten(_)
Flatten(lines) == IF lines = <<>> THEN <<>> ELSE Head(lines) \o Flatten(Tail(lines))

\* the six white words and the three cyan texts, as the segments give them
ExpectedWords ==
    <<[word |-> <<"I", "S">>, color |-> White],
      [word |-> <<"O", "N">>, color |-> White],
      [word |-> <<"S", "A", "L", "E">>, color |-> White],
      [word |-> <<"O", "N">>, color |-> White],
      [word |-> s_segments[2].text, color |-> Cyan],
      [word |-> <<"F", "O", "R">>, color |-> White],
      [word |-> s_segments[4].text, color |-> Cyan],
      [word |-> <<"U", "N", "T", "I", "L">>, color |-> White],
      [word |-> s_segments[6].text, color |-> Cyan]>>

\* C17: a wrapped line of more than one word is at most MAX_TEXT_WIDTH wide,
\* so a wider line is a single word that is itself wider; and a line is
\* opened by a word only when that word, appended to the line before it
\* with a space, would have exceeded MAX_TEXT_WIDTH.
C17_WrappedLinesFit ==
    s_pc \in {"wrap", "done"} =>
        /\ \A j \in 1 .. Len(s_wrapped) :
              /\ Len(s_wrapped[j]) > 1 => WrappedWidth(s_wrapped[j]) <= s_max
              /\ WrappedWidth(s_wrapped[j]) > s_max =>
                    (Len(s_wrapped[j]) = 1 /\ WordWidth(s_wrapped[j][1]) > s_max)
        /\ \A j \in 2 .. Len(s_wrapped) :
              WrappedWidth(s_wrapped[j - 1]) + SpaceWidth(s_size)
                  + WordWidth(s_wrapped[j][1]) > s_max
        /\ Len(s_current_line) > 1 => WrappedWidth(s_current_line) <= s_max
        /\ s_current_width = WrappedWidth(s_current_line)

\* three lines or more, one of several words that fits exactly or loosely
\* and one of a single word wider than MAX_TEXT_WIDTH
C17_Witness ==
    /\ s_pc = "done"
    /\ Len(s_wrapped) >= 3
    /\ \E j \in 1 .. Len(s_wrapped) : Len(s_wrapped[j]) > 1
    /\ \E j \in 1 .. Len(s_wrapped) : WrappedWidth(s_wrapped[j]) > s_max

\* C18: the wrapped lines, concatenated, are the (word, color) pairs of the
\* segments, each once, in order and with its color; no wrapped line is
\* empty.
C18_WordsKeptOnceInOrder ==
    /\ s_pc \in {"wrap", "done"} =>
          /\ s_words = ExpectedWords
          /\ \A j \in 1 .. Len(s_wrapped) : s_wrapped[j] # <<>>
    /\ s_pc = "wrap" => Flatten(s_wrapped) \o s_current_line = SubSeq(s_words, 1, s_i)
    /\ s_pc = "done" => Flatten(s_wrapped) = ExpectedWords

\* four lines, one of them holding words of both colors
C18_Witness ==
    /\ s_pc = "done"
    /\ Len(s_wrapped) = 4
    /\ \E j \in 1 .. Len(s_wrapped) :
          \E a, b \in 1 .. Len(s_wrapped[j]) : s_wrapped[j][a].color # s_wrapped[j][b].color


(***************************************************************************)
(* Properties of _fit_font_to_width.                                       *)
(***************************************************************************)
\* the sizes base_size, base_size - step, ... above min_px at which the text,
\* stroke included, is at most max_width wide
FittingTries ==
    {sz \in (p_min_px + 1) .. p_base_size :
        /\ (p_base_size - sz) % p_step = 0
        /\ TextSize(p_text, LoadFont(sz, p_font_ok), p_stroke)[1] <= p_max_width}

\* C15: for a non-empty text and base_size >= min_px, _fit_font_to_width
\* returns the largest of the sizes base_size, base_size - step, ... above
\* min_px at which the measured width is at most max_width, and min_px when
\* there is none, too wide or not; the size is within min_px .. base_size.
C15_LargestFittingTryOrFloor ==
    (p_pc = "returned" /\ p_text # <<>> /\ p_base_size >= p_min_px) =>
        /\ p_size = IF FittingTries # {}
                    THEN CHOOSE sz \in FittingTries : \A o \in FittingTries : o <= sz
                    ELSE p_min_px
        /\ p_size >= p_min_px
        /\ p_size <= p_base_size

\* a size strictly between the floor and the base is returned, the sizes
\* above it in the sequence being too wide
C15_Witness ==
    /\ p_pc = "returned"
    /\ p_text # <<>>
    /\ p_step = 2
    /\ p_font_ok
    /\ p_min_px < p_size
    /\ p_size <= p_base_size - 4
    /\ TextSize(p_text, p_size + 1, p_stroke)[1] <= p_max_width

\* the floor is returned although the text is too wide there
C15_WitnessFloor ==
    /\ p_pc = "returned"
    /\ p_text # <<>>
    /\ p_base_size > p_min_px
    /\ p_size = p_min_px
    /\ TextSize(p_text, LoadFont(p_min_px, p_font_ok), p_stroke)[1] > p_max_width


(***************************************************************************)
(* Properties of add_gradient_background.                                  *)
(***************************************************************************)
\* the rows the band would cover, unclamped
NominalTop == BandTop(b_args.center_y, b_args.height, b_args.fade)

NominalBottom == NominalTop + BandH(b_args.height, b_args.fade)

BandOverlapsImage == Max(0, NominalTop) < Min(b_args.img_height, NominalBottom)

\* the crop is inside the band, the paste inside the image, from
\* max(0, band_top) to min(img.height, band_bottom), and as tall as the crop
ClippedPaste ==
    /\ b_crop # None
    /\ b_paste # None
    /\ 0 <= b_crop[1]
    /\ b_crop[1] <= b_crop[2]
    /\ b_crop[2] <= BandH(b_args.height, b_args.fade)
    /\ 0 <= b_paste[1]
    /\ b_paste[2] <= b_args.img_height
    /\ b_paste[1] = Max(0, NominalTop)
    /\ b_paste[2] = Min(b_args.img_height, NominalBottom)
    /\ b_paste[2] - b_paste[1] = b_crop[2] - b_crop[1]

\* C20: for every center_y, height >= 0 and fade >= 0 the call returns; the
\* strip it crops is inside the band and the strip it pastes inside the
\* image, from max(0, band_top) to min(img.height, band_bottom) and as tall
\* as the crop; a band that does not overlap the image leaves it unchanged.
C20_BandClippedToImage ==
    b_pc = "done" =>
        IF BandOverlapsImage
        THEN b_result.kind = "composited" /\ ClippedPaste
        ELSE b_result.kind = "unchanged" /\ b_crop = None /\ b_paste = None

\* the same with a band of one row at least: the clipping itself is right
C20_ClippedWhenBandHasRows ==
    (b_pc = "done" /\ BandH(b_args.height, b_args.fade) >= 1) =>
        IF BandOverlapsImage
        THEN b_result.kind = "composited" /\ ClippedPaste
        ELSE b_result.kind = "unchanged" /\ b_crop = None /\ b_paste = None

\* a band cut at both ends of the image
C20_WitnessClipped ==
    /\ b_pc = "done"
    /\ b_result.kind = "composited"
    /\ NominalTop < 0
    /\ NominalBottom > b_args.img_height
    /\ b_crop[1] > 0

\* a band without rows
C20_WitnessEmptyBand == b_pc = "done" /\ b_result.kind = "ValueError"


(***************************************************************************)
(* Properties of the shrink of add_text_overlay.                           *)
(***************************************************************************)
AllAtMin(lines) == \A i \in 1 .. Len(lines) : lines[i].sz = MIN_FONT_SIZE_PX

\* C14: after the proportional rescale and the squeeze loop, and with
\* neither, every line that is drawn has a font size of MIN_FONT_SIZE_PX at
\* least.
C14_DrawnSizesAtLeastMin ==
    o_pc \in {"measured", "squeeze", "done"} =>
        \A i \in 1 .. Len(o_lines) : o_lines[i].sz >= 18

\* the block was rescaled and squeezed down to the floor on one line, another
\* line staying above it
C14_Witness ==
    /\ o_pc = "done"
    /\ o_scaled
    /\ Len(o_lines) = 3
    /\ \E i \in 1 .. 3 : o_lines[i].sz = 18
    /\ \E i \in 1 .. 3 : o_lines[i].sz > 18 /\ o_lines[i].sz < BASE_FONT_SIZE_PX - FitStep
    /\ o_total_h <= o_available_h

\* an iteration of the squeeze loop lowers every size above the floor
SqueezeLowers ==
    (o_pc = "squeeze" /\ o_pc' = "squeeze") =>
        /\ Len(o_lines') = Len(o_lines)
        /\ \A i \in 1 .. Len(o_lines) :
              /\ o_lines[i].sz > MIN_FONT_SIZE_PX => o_lines'[i].sz < o_lines[i].sz
              /\ o_lines[i].sz = MIN_FONT_SIZE_PX => o_lines'[i].sz = MIN_FONT_SIZE_PX

\* where the shrink stops the block fits the band or every line is at the floor
ShrinkStopsFittingOrAtMin ==
    (o_pc = "done" /\ o_scaled) => (o_total_h <= o_available_h \/ AllAtMin(o_lines))

\* C19: when total_h > available_h > 0 the shrink ends; every iteration of
\* the squeeze loop strictly lowers the size of every line above
\* MIN_FONT_SIZE_PX; and when it has ended the block is at most available_h
\* high or every line is at MIN_FONT_SIZE_PX.
C19_ShrinkTerminates ==
    /\ [][SqueezeLowers]_vars
    /\ [](ShrinkStopsFittingOrAtMin)
    /\ (o_pc = "call") ~> (o_pc = "done")

\* the shrink ended after iterations of the squeeze loop with every line at
\* the floor and the block still higher than the band
C19_Witness ==
    /\ o_pc = "done"
    /\ o_scaled
    /\ AllAtMin(o_lines)
    /\ o_total_h > o_available_h
    /\ o_font_ok

\* the shrink ended with the block fitting, a line above the floor
C19_WitnessFits ==
    /\ o_pc = "done"
    /\ o_scaled
    /\ o_total_h <= o_available_h
    /\ ~AllAtMin(o_lines)

(***************************************************************************)
(* Properties of the alpha column of add_gradient_background.              *)
(***************************************************************************)
AlphaDone == a_pc = "done"

\* int(255 * opacity), as the column holds it on a solid row
FullAlphas == ScaledAlpha(255, a_opacity)

AlphaNonDecreasing(lo, hi) ==
    \A i \in lo .. hi - 1 : a_col[i] <= a_col[i + 1]

AlphaNonIncreasing(lo, hi) ==
    \A i \in lo .. hi - 1 : a_col[i] >= a_col[i + 1]

\* C21: the finished column is 0 on its first and last row, does not
\* decrease through the upper fade, is int(255 * opacity) on every solid row,
\* does not increase through the lower fade, and nowhere exceeds
\* int(255 * opacity)
C21_AlphaColumnShape ==
    AlphaDone =>
        \E full \in FullAlphas :
           /\ a_col[1] = 0
           /\ a_col[Len(a_col)] = 0
           /\ AlphaNonDecreasing(1, a_args.fade)
           /\ \A i \in a_args.fade + 1 .. a_args.fade + a_args.height : a_col[i] = full
           /\ AlphaNonIncreasing(a_args.fade + a_args.height + 1, Len(a_col))
           /\ \A i \in 1 .. Len(a_col) : a_col[i] <= full

\* what holds of every finished column: all of the above but the two outer
\* rows, and the first row is 0 when there is a fade
C21_ShapeInsideEdges ==
    AlphaDone =>
        \E full \in FullAlphas :
           /\ a_args.fade >= 1 => a_col[1] = 0
           /\ AlphaNonDecreasing(1, a_args.fade)
           /\ \A i \in a_args.fade + 1 .. a_args.fade + a_args.height : a_col[i] = full
           /\ AlphaNonIncreasing(a_args.fade + a_args.height + 1, Len(a_col))
           /\ \A i \in 1 .. Len(a_col) : a_col[i] <= full

\* a finished column with a fade and a visible band whose last row is not 0
C21_WitnessLastRow ==
    /\ AlphaDone
    /\ a_args.fade >= 1
    /\ a_opacity = <<9, 10>>
    /\ a_col[Len(a_col)] > 0

(***************************************************************************)
(* Properties of the placement in add_text_overlay.                        *)
(***************************************************************************)
OverlayPlaced == o_pc = "done"

BlockInsideLeeway ==
    /\ o_top_y >= o_solid[1] - BAND_LEEWAY
    /\ o_top_y + o_total_h <= o_solid[2] + BAND_LEEWAY

\* C22: after placement the block [top_y, top_y + total_h] lies within
\* [solid_top - BAND_LEEWAY, solid_bottom + BAND_LEEWAY]
C22_BlockWithinLeeway == OverlayPlaced => BlockInsideLeeway

\* the block is placed within the leeway whenever it is no taller than
\* available_h
C22_WithinLeewayWhenItFits ==
    (OverlayPlaced /\ o_total_h <= o_available_h) => BlockInsideLeeway

\* a block that was shrunk, fits and is placed
C22_Witness ==
    /\ OverlayPlaced
    /\ o_scaled
    /\ o_total_h <= o_available_h
    /\ BlockInsideLeeway

\* a placed block that leaves the leeway
C22_WitnessOutside == OverlayPlaced /\ ~BlockInsideLeeway

(***************************************************************************)
(* Properties of igdb_post.                                                *)
(***************************************************************************)
Posts(log) == {j \in 1 .. Len(log) : log[j].ev = "post"}

Retryable(status) == status = 429 \/ status >= 500

\* C23: a call sends at most MAX_RETRIES POSTs; it returns only on a
\* response of status 200; five responses of status 429 or >= 500 in a row
\* end in a RuntimeError that ends the run; every sleep after a 429 lasts
\* between 0.5 and 10 seconds
C23_BoundedRetries ==
    /\ Cardinality(Posts(i_log)) <= 5
    /\ i_pc = "returned" =>
          /\ Len(i_log) >= 2
          /\ i_log[Len(i_log) - 1] = PostEvent(200)
    /\ ( /\ i_pc # "loop"
         /\ Cardinality(Posts(i_log)) = 5
         /\ \A j \in Posts(i_log) : Retryable(i_log[j].status) )
       => (i_pc = "RuntimeError" /\ i_run = "crashed")
    /\ \A j \in 1 .. Len(i_log) :
          (i_log[j].ev = "sleep" /\ i_log[j].status = 429)
             => (i_log[j].ms >= 500 /\ i_log[j].ms <= 10000)

\* five retryable responses in a row, one of them a 429 whose header asked
\* for more than 10 seconds, and the RuntimeError
C23_Witness ==
    /\ i_pc = "RuntimeError"
    /\ i_run = "crashed"
    /\ Cardinality(Posts(i_log)) = 5
    /\ \A j \in Posts(i_log) : Retryable(i_log[j].status)
    /\ \E j \in 1 .. Len(i_log) : i_log[j] = SleepEvent(429, 10000) /\ j < 4
    /\ \E j \in 1 .. Len(i_log) : i_log[j].status = 503

NonRetryable(status) == status # 0 /\ status # 200 /\ ~Retryable(status)

\* C24: a response of a status other than 200, 429 or >= 500 makes the call
\* raise at once: it is the last thing the call did, no POST and no sleep
\* follow it
C24_NonRetryableRaisesAtOnce ==
    \A j \in Posts(i_log) :
       NonRetryable(i_log[j].status) => (j = Len(i_log) /\ i_pc = "HTTPError")

\* a response of such a status from 400 on makes the call raise at once
C24_ErrorStatusRaisesAtOnce ==
    \A j \in Posts(i_log) :
       (NonRetryable(i_log[j].status) /\ i_log[j].status >= 400)
          => (j = Len(i_log) /\ i_pc = "HTTPError")

\* a response of status 204 that was followed by another POST
C24_WitnessPostAfter ==
    \E j \in Posts(i_log) : i_log[j].status = 204 /\ j < Len(i_log)

(***************************************************************************)
(* Properties of the export tracker of getTrend.py.                        *)
(***************************************************************************)
\* the period_start the run found in the tracker file, <<>> when the file or
\* the value is missing or cannot be read
StoredStart == IF tr_loaded.exists THEN FromIsoFormat(tr_loaded.ts) ELSE <<>>

TrackerRunSaved == tr_pc = "saved" /\ tr_use_tracker

TrackerRunLoaded ==
    tr_pc \in {"tracker", "forced", "candidates", "exported", "saved"} /\ tr_use_tracker

InsideWindow == StoredStart # <<>> /\ tr_now - StoredStart[1] < 7

WindowElapsed == StoredStart # <<>> /\ tr_now - StoredStart[1] >= 7

ExportSlugs == SlugsOf(tr_feed, tr_platform, tr_export)

\* C25: a run less than 7 days after the stored period_start writes the
\* same period_start back and keeps every tracked slug; a run 7 days or more
\* after it selects its candidates against an empty slug set and writes its
\* own time as period_start; a missing or unreadable period_start starts a
\* window at the time of the run
C25_FixedWindow ==
    /\ (TrackerRunSaved /\ InsideWindow) =>
          /\ FromIsoFormat(tr_tracker.ts) = StoredStart
          /\ tr_loaded.slugs \subseteq tr_tracker.slugs
    /\ (TrackerRunLoaded /\ WindowElapsed) =>
          /\ tr_period_start = <<tr_now>>
          /\ tr_pc \in {"tracker", "forced", "candidates"} => tr_exported_slugs = {}
    /\ (TrackerRunSaved /\ WindowElapsed) =>
          /\ tr_tracker.ts = IsoFormat(tr_now)
          /\ tr_tracker.slugs = ExportSlugs
    /\ (TrackerRunSaved /\ StoredStart = <<>>) => tr_tracker.ts = IsoFormat(tr_now)

\* a run 7 days or more after the stored period_start, which drops a
\* tracked slug and writes its own time
C25_Witness ==
    /\ TrackerRunSaved
    /\ tr_runs >= 2
    /\ WindowElapsed
    /\ tr_loaded.slugs # {}
    /\ ~(tr_loaded.slugs \subseteq tr_tracker.slugs)
    /\ tr_tracker.ts.t = tr_now

\* a later run inside the window, which keeps the slugs and the start
C25_WitnessInside ==
    /\ TrackerRunSaved
    /\ tr_runs >= 2
    /\ InsideWindow
    /\ tr_loaded.slugs # {}
    /\ tr_export # <<>>
    /\ tr_tracker.ts.t < tr_now

ForcedAt(j) == CleanAt(tr_feed, tr_platform, tr_export[j]) \in tr_seen_force

TrendExported == tr_pc \in {"exported", "saved"} /\ tr_use_tracker

\* no slug that is not forced is exported twice by one run
OncePerRun ==
    \A j1, j2 \in 1 .. Len(tr_export) :
       (j1 < j2 /\ ~ForcedAt(j1))
          => CleanAt(tr_feed, tr_platform, tr_export[j1])
                # CleanAt(tr_feed, tr_platform, tr_export[j2])

\* no slug that is not forced is exported by a run when an earlier run of
\* the window exported it
OncePerWindow ==
    tr_pc = "exported" =>
       \A j \in 1 .. Len(tr_export) :
          ~ForcedAt(j) => CleanAt(tr_feed, tr_platform, tr_export[j]) \notin tr_window

\* the run adds to the tracker the slugs it exports and no other
TrackedOnlyWhenExported ==
    tr_exported_slugs \subseteq
       (IF WindowElapsed THEN {} ELSE tr_loaded.slugs) \cup ExportSlugs

\* C26: inside one window a cleaned slug that is not forced is exported at
\* most once, across the runs and within a run, and a slug enters the
\* tracker only in a run that exported it
C26_ExportedOnce ==
    TrendExported => (OncePerRun /\ OncePerWindow /\ TrackedOnlyWhenExported)

\* the same across the runs only
C26_ExportedOnceAcrossRuns ==
    TrendExported => (OncePerWindow /\ TrackedOnlyWhenExported)

\* a run that exports one cleaned slug twice, neither time forced
C26_WitnessTwice ==
    /\ TrendExported
    /\ \E j1, j2 \in 1 .. Len(tr_export) :
          /\ j1 < j2
          /\ ~ForcedAt(j1)
          /\ ~ForcedAt(j2)
          /\ CleanAt(tr_feed, tr_platform, tr_export[j1])
                = CleanAt(tr_feed, tr_platform, tr_export[j2])

CandidatesBuilt == tr_pc \in {"candidates", "exported", "saved"}

NotForced(j) == j > Len(tr_forced)

\* candidates that are not forced come from the first 300 games and are not
\* in the tracker; forced games come from the whole feed
PoolAndForce ==
    /\ \A j \in 1 .. Len(tr_candidates) :
          NotForced(j) => tr_candidates[j] <= 300
    /\ SubSeq(tr_candidates, 1, Len(tr_forced)) = tr_forced
    /\ \A i \in 1 .. tr_feed.len :
          CleanAt(tr_feed, tr_platform, i) \in tr_seen_force
             => \E j \in 1 .. Len(tr_forced) :
                   CleanAt(tr_feed, tr_platform, tr_forced[j])
                      = CleanAt(tr_feed, tr_platform, i)

\* C27: the candidate list holds at most max(MAX_GAMES, number of forced
\* games) games; candidates that are not forced come from the first 300
\* games of the feed; forced games come from the whole feed
C27_CandidateCap ==
    CandidatesBuilt =>
       /\ Len(tr_candidates) <= Max(50, Len(tr_forced))
       /\ Len(tr_export) <= Max(50, Len(tr_forced))
       /\ PoolAndForce

\* the same with room for the one game the loop appends before it tests
\* the length
C27_CandidateCapPlusOne ==
    CandidatesBuilt =>
       /\ Len(tr_candidates) <= Max(50, Len(tr_forced) + 1)
       /\ PoolAndForce

\* fifty forced games and one more candidate
C27_WitnessOver ==
    /\ CandidatesBuilt
    /\ Len(tr_forced) = 50
    /\ Len(tr_candidates) = 51

(***************************************************************************)
(* Properties of facebookPost.py.                                          *)
(***************************************************************************)
EventsOf(kind) == SelectSeq(fb_log, LAMBDA e : e.ev = kind)

FeedAt(p) == p \in 1 .. Len(fb_log) /\ fb_log[p].ev = "feed"

\* the ids of the uploads answered with an id, in the order of image_files
SuccessfulUploads ==
    LET good == SelectSeq(EventsOf("upload"), LAMBDA e : e.ok)
    IN  [j \in 1 .. Len(good) |-> [media_fbid |-> MediaId(good[j].arg)]]

CommentTextsSent ==
    LET sent == EventsOf("comment")
    IN  [j \in 1 .. Len(sent) |-> sent[j].arg[1]]

FbEnded == fb_pc \in {"exit", "done", "crashed"}

\* the feed post comes after an upload of every file of the sorted list,
\* one of them answered with an id, and attaches the ids of the uploads
\* that were, in order
FeedAfterUploads ==
    \A p \in 1 .. Len(fb_log) :
       FeedAt(p) =>
          /\ p = Len(fb_files) + 1
          /\ \A j \in 1 .. Len(fb_files) : fb_log[j].ev = "upload" /\ fb_log[j].arg = fb_files[j]
          /\ fb_files = ImageFiles(fb_folder)
          /\ fb_log[p].arg = SuccessfulUploads
          /\ fb_log[p].arg # <<>>

\* comments come after a feed post answered with an id, in the order of
\* the config list
CommentsAfterFeed ==
    /\ \A p \in 1 .. Len(fb_log) :
          fb_log[p].ev = "comment" =>
             \E q \in 1 .. p - 1 : FeedAt(q) /\ fb_log[q].ok
    /\ CommentTextsSent = SubSeq(fb_comments, 1, Len(CommentTextsSent))

\* C28: the feed post is attempted after all uploads and only with an
\* uploaded id; it attaches the ids of the successful uploads in sorted
\* file-name order; comments follow a feed post that returned an id, in
\* config order; a failed comment does not stop the remaining comments
C28_PublishOrder ==
    /\ FeedAfterUploads
    /\ CommentsAfterFeed
    /\ (FbEnded /\ \E q \in 1 .. Len(fb_log) : FeedAt(q) /\ fb_log[q].ok)
          => CommentTextsSent = fb_comments

\* the same, where a comment fails by an answer without an id
C28_PublishOrderAnswered ==
    /\ FeedAfterUploads
    /\ CommentsAfterFeed
    /\ (fb_pc = "done" /\ \E q \in 1 .. Len(fb_log) : FeedAt(q) /\ fb_log[q].ok)
          => CommentTextsSent = fb_comments

\* a run that ended after its first comment failed, with a comment left
C28_WitnessCommentLeft ==
    /\ FbEnded
    /\ Len(fb_comments) = 2
    /\ Len(CommentTextsSent) = 1
    /\ \E p \in 1 .. Len(fb_log) : fb_log[p].ev = "upload" /\ ~fb_log[p].ok

(***************************************************************************)
(* Properties of the candidate selection of onThisDay.py.                  *)
(***************************************************************************)
PickSorted == d_pc \in {"loop", "chosen", "none", "crashed"}

\* no candidate has a smaller key than a later one
OrderedBy(KeyOf(_)) ==
    \A j1, j2 \in 1 .. Len(d_candidates) :
       j1 < j2 => ~TupleLess(KeyOf(d_candidates[j1]), KeyOf(d_candidates[j2]))

SamePicks == {d_candidates[j] : j \in 1 .. Len(d_candidates)}
                = {d_todays[j] : j \in 1 .. Len(d_todays)}

\* main selects the first candidate, in the order of the list, that has a
\* slug, an IGDB match and MIN_SCREENSHOTS screenshot URLs at least
FirstFitSelected ==
    /\ d_pc = "chosen" =>
          /\ d_chosen = <<d_candidates[d_idx]>>
          /\ SkipReason(d_candidates[d_idx]) = ""
          /\ \A j \in 1 .. d_idx - 1 : SkipReason(d_candidates[j]) # ""
    /\ d_pc = "none" =>
          /\ d_chosen = <<>>
          /\ \A j \in 1 .. Len(d_candidates) : SkipReason(d_candidates[j]) # ""

\* C29: the candidates are ordered by SCORE, then Popularity, then the
\* year match, higher first, and main selects the first one in that order
\* with a slug, an IGDB match and 5 screenshot URLs at least
C29_ScoreThenPopularity ==
    PickSorted => (OrderedBy(KeyScoreFirst) /\ SamePicks /\ FirstFitSelected)

\* the order the code gives: Popularity, then SCORE, then the year match
C29_PopularityThenScore ==
    PickSorted => (OrderedBy(Key) /\ SamePicks /\ FirstFitSelected)

\* the entry of lower SCORE and higher Popularity is selected although the
\* other one is fit as well
C29_WitnessLowerScore ==
    /\ d_pc = "chosen"
    /\ \E j \in 1 .. Len(d_candidates) :
          /\ SkipReason(d_candidates[j]) = ""
          /\ d_candidates[j].score > d_chosen[1].score
          /\ d_candidates[j].pop < d_chosen[1].pop

(***************************************************************************)
(* Properties of the canvas height of make_collage_1242.                   *)
(***************************************************************************)
GridPasting == g_pc \in {"paste", "save", "done"} /\ g_n >= 2

TileInsideCanvas(t) ==
    /\ t.y >= g_args.margin
    /\ t.y + t.h <= g_canvas[2] - g_args.margin

\* C30: for n >= 2 URLs and cols >= 1 every tile is pasted between the top
\* margin and the bottom margin of the canvas
C30_TilesInsideCanvas ==
    GridPasting => \A i \in 1 .. Len(g_tiles) : TileInsideCanvas(g_tiles[i])

\* the same when the last row is full or holds one tile, which is every
\* case for cols <= 2
C30_InsideWhenRowsComplete ==
    (GridPasting /\ g_n % g_args.cols \in {0, 1}) =>
        \A i \in 1 .. Len(g_tiles) : TileInsideCanvas(g_tiles[i])

\* five tiles in three columns: the fifth is pasted below the canvas
C30_WitnessBelowCanvas ==
    /\ g_pc = "done"
    /\ g_n = 5
    /\ g_args.cols = 3
    /\ g_tiles[5].y >= g_canvas[2]

=============================================================================
